---------------------------- MODULE Spec2Model ----------------------------
(***************************************************************************)
(* rust_az_wrapper: the argument builder (AzCommandBuilder), the command   *)
(* executor (execute_az_command, execute_az_command_raw) and the two       *)
(* probes (check_az_cli, check_authentication) of src/src/utils.rs, with   *)
(* the error mapping of src/src/error.rs.                                  *)
(*                                                                         *)
(* A command-line token is a TLA+ string.  The bytes a child process       *)
(* writes are a sequence of integers 0..255; a Rust String built from      *)
(* them is a sequence of Unicode code points.                              *)
(***************************************************************************)
EXTENDS Integers, Sequences, FiniteSets, TLC

VARIABLES
    pc,       \* position of the caller: "idle", "build", "spawn", "running", "done"
    args,     \* AzCommandBuilder.args, then the args slice of the running call
    calls,    \* the builder calls made so far, in call order (history)
    entry,    \* the function being executed ("none" before any is called)
    shape,    \* the target type T of a structured execution ("none" otherwise)
    spawns,   \* the Command::output() calls made so far: their argument vectors
    child,    \* what the child process did: exit status, stdout and stderr bytes
    decodes,  \* the number of serde_json::from_str calls made so far
    result,   \* the value returned to the caller
    client,   \* the AzureClient, once constructed: <<>> or <<client>>
    running,  \* the AzureClient method running: <<>> or <<[call, stages, returned]>>
    given,    \* the members of the JSON object given to from_str
    encoded,  \* the text to_string wrote for the decoded value: <<>> or <<text>>
    again,    \* what from_str gave for that text: <<>> or <<result>>
    callers   \* the executions of concurrent callers: <<>>, or each caller's own

vars == <<pc, args, calls, entry, shape, spawns, child, decodes, result,
          client, running, given, encoded, again, callers>>

---------------------------------------------------------------------------
(* Bounds of the model.                                                    *)

\* the builder calls made on one builder before it is executed
MaxCalls == 2
\* the builder calls made on one builder before build()
MaxBuilderCalls == 3

\* how deep the one Option field of a sample object given to from_str holds
\* its own Option fields
MaxDepth == 1
\* how many builder calls make a command whose execution is followed to its
\* return
MaxTerminationCalls == 1
\* how many use_subscription and clear_subscription calls a client gets before
\* one of its methods is called
MaxClientCalls == 1
\* the same, where the subscription alone is followed
MaxSubscriptionCalls == 2
\* how many callers run a function of utils.rs at the same time
NumCallers == 2

---------------------------------------------------------------------------
(* Text.                                                                   *)

\* U+FFFD REPLACEMENT CHARACTER, what from_utf8_lossy puts for invalid bytes
ReplacementChar == 65533

IsCont(b) == b >= 128 /\ b <= 191

\* String::from_utf8_lossy: valid sequences decode to their code point, each
\* maximal invalid part becomes one U+FFFD.
RECURSIVE Utf8LossyFrom(_, _)
Utf8LossyFrom(bytes, i) ==
    IF i > Len(bytes) THEN <<>>
    ELSE LET b0 == bytes[i]
             has1 == i + 1 <= Len(bytes)
             has2 == i + 2 <= Len(bytes)
             has3 == i + 3 <= Len(bytes)
             b1 == bytes[i + 1]
             b2 == bytes[i + 2]
             b3 == bytes[i + 3]
             \* the range the second byte of a sequence led by b0 must lie in
             lo1 == IF b0 = 224 THEN 160 ELSE IF b0 = 240 THEN 144 ELSE 128
             hi1 == IF b0 = 237 THEN 159 ELSE IF b0 = 244 THEN 143 ELSE 191
             ok1 == has1 /\ b1 >= lo1 /\ b1 <= hi1
         IN  IF b0 < 128 THEN <<b0>> \o Utf8LossyFrom(bytes, i + 1)
             ELSE IF b0 >= 194 /\ b0 <= 223 THEN
                 IF has1 /\ IsCont(b1)
                 THEN <<((b0 - 192) * 64) + (b1 - 128)>> \o Utf8LossyFrom(bytes, i + 2)
                 ELSE <<ReplacementChar>> \o Utf8LossyFrom(bytes, i + 1)
             ELSE IF b0 >= 224 /\ b0 <= 239 THEN
                 IF ~ok1 THEN <<ReplacementChar>> \o Utf8LossyFrom(bytes, i + 1)
                 ELSE IF has2 /\ IsCont(b2)
                 THEN <<((b0 - 224) * 4096) + ((b1 - 128) * 64) + (b2 - 128)>>
                          \o Utf8LossyFrom(bytes, i + 3)
                 ELSE <<ReplacementChar>> \o Utf8LossyFrom(bytes, i + 2)
             ELSE IF b0 >= 240 /\ b0 <= 244 THEN
                 IF ~ok1 THEN <<ReplacementChar>> \o Utf8LossyFrom(bytes, i + 1)
                 ELSE IF ~(has2 /\ IsCont(b2))
                 THEN <<ReplacementChar>> \o Utf8LossyFrom(bytes, i + 2)
                 ELSE IF has3 /\ IsCont(b3)
                 THEN <<((b0 - 240) * 262144) + ((b1 - 128) * 4096)
                            + ((b2 - 128) * 64) + (b3 - 128)>>
                          \o Utf8LossyFrom(bytes, i + 4)
                 ELSE <<ReplacementChar>> \o Utf8LossyFrom(bytes, i + 3)
             ELSE <<ReplacementChar>> \o Utf8LossyFrom(bytes, i + 1)

FromUtf8Lossy(bytes) == Utf8LossyFrom(bytes, 1)

\* The UTF-8 bytes of a String (what String::as_bytes gives).
RECURSIVE Utf8Encode(_)
Utf8Encode(text) ==
    IF text = <<>> THEN <<>>
    ELSE LET c == Head(text)
             enc == IF c < 128 THEN <<c>>
                    ELSE IF c < 2048 THEN <<192 + (c \div 64), 128 + (c % 64)>>
                    ELSE IF c < 65536
                    THEN <<224 + (c \div 4096), 128 + ((c \div 64) % 64), 128 + (c % 64)>>
                    ELSE <<240 + (c \div 262144), 128 + ((c \div 4096) % 64),
                           128 + ((c \div 64) % 64), 128 + (c % 64)>>
         IN  enc \o Utf8Encode(Tail(text))

\* is_empty as it would be if it were trim().is_empty()
is_empty_Trimmed(text) == \A i \in 1..Len(text) : text[i] \in {32, 9, 10, 13}

\* str::is_empty
is_empty(text) == Len(text) = 0

\* str::contains(pat): pat occurs as a contiguous substring
contains(text, pat) ==
    \E i \in 1..(Len(text) + 1) :
        /\ i + Len(pat) - 1 <= Len(text)
        /\ \A k \in 1..Len(pat) : text[i + k - 1] = pat[k]

\* "az login", the pattern check_authentication looks for
AzLogin == <<97, 122, 32, 108, 111, 103, 105, 110>>

\* [&str]::join(" ")
RECURSIVE join(_)
join(tokens) ==
    IF tokens = <<>> THEN ""
    ELSE IF Len(tokens) = 1 THEN tokens[1]
    ELSE tokens[1] \o " " \o join(Tail(tokens))

\* format!("az {}", args.join(" "))
CommandString(tokens) == "az " \o join(tokens)

---------------------------------------------------------------------------
(* serde_json::from_str::<T> for a struct T that derives Deserialize.       *)
(* A text is a sequence of code points, an index is 1-based, and a parse    *)
(* gives [ok |-> TRUE, ..., next |-> index after it] or                     *)
(* [ok |-> FALSE, diag |-> the serde_json::Error].  The texts of this model *)
(* hold no \u escape and no fraction or exponent.                           *)

JsonError(category, message, at) ==
    [ok |-> FALSE, diag |-> [category |-> category, message |-> message, at |-> at]]

IsWs(c) == c \in {32, 9, 10, 13}

IsDigit(c) == c >= 48 /\ c <= 57

\* the first character from i on that is not whitespace
SkipWs(t, i) ==
    IF i > Len(t) THEN i
    ELSE CHOOSE j \in i..(Len(t) + 1) :
             /\ j > Len(t) \/ ~IsWs(t[j])
             /\ \A k \in i..(j - 1) : IsWs(t[k])

\* how many backslashes stand immediately before t[k], counted from t[from]
BackslashRun(t, from, k) ==
    k - (CHOOSE s \in from..k :
             /\ \A m \in s..(k - 1) : t[m] = 92
             /\ s = from \/ t[s - 1] # 92)

\* the texts lo..hi of a sequence, one after the other
RECURSIVE Flat(_, _, _)
Flat(texts, lo, hi) ==
    IF lo > hi THEN <<>>
    ELSE IF lo = hi THEN texts[lo]
    ELSE Flat(texts, lo, (lo + hi) \div 2) \o Flat(texts, ((lo + hi) \div 2) + 1, hi)

\* t[k] of a string that starts at t[from] is escaped by a backslash
IsEscaped(t, from, k) == BackslashRun(t, from, k) % 2 = 1

\* the character an escape stands for, -1 for an escape that is not JSON's
Unescape(e) ==
    IF e \in {34, 92, 47} THEN e
    ELSE IF e = 98 THEN 8 ELSE IF e = 102 THEN 12
    ELSE IF e = 110 THEN 10 ELSE IF e = 114 THEN 13
    ELSE IF e = 116 THEN 9 ELSE -1

\* the string that starts at t[from] stops at t[k]: at a quote or a control
\* character that is not escaped, or at an escape that is not JSON's
StrStops(t, from, k) ==
    IF IsEscaped(t, from, k) THEN Unescape(t[k]) = -1 ELSE t[k] = 34 \/ t[k] < 32

\* what t[k] adds to the string that starts at t[from]
StrChar(t, from, k) ==
    IF IsEscaped(t, from, k) THEN <<Unescape(t[k])>>
    ELSE IF t[k] = 92 THEN <<>> ELSE <<t[k]>>

\* the string that starts at t[i] and stops at t[stop], or at the end of t
StrEnd(t, i, acc, stop) ==
    IF stop > Len(t) THEN JsonError("eof", "EOF while parsing a string", stop)
    ELSE IF IsEscaped(t, i, stop) THEN JsonError("syntax", "invalid escape", stop)
    ELSE IF t[stop] = 34
    THEN [ok |-> TRUE,
          val |-> acc \o Flat([n \in 1..(stop - i) |-> StrChar(t, i, i + n - 1)], 1, stop - i),
          next |-> stop + 1]
    ELSE JsonError("syntax", "control character found while parsing a string", stop)

\* the characters of a string, from the one after its opening quote: a
\* backslash escapes the character after it, the first quote that is not
\* escaped ends the string, and a control character or an escape that is
\* not one of JSON's is an error
StrBody(t, i, acc) ==
    StrEnd(t, i, acc,
           CHOOSE k \in i..(Len(t) + 1) :
               \A m \in i..k : (m > Len(t) \/ StrStops(t, i, m)) <=> m = k)

\* parse_ident: the rest of true, false or null
Ident(t, i, word) ==
    IF i + Len(word) - 1 > Len(t)
    THEN JsonError("eof", "EOF while parsing a value", Len(t) + 1)
    ELSE IF \A k \in 1..Len(word) : t[i + k - 1] = word[k]
    THEN [ok |-> TRUE, next |-> i + Len(word)]
    ELSE JsonError("syntax", "expected ident", i)

\* the first character from i on that is not a digit
Digits(t, i) ==
    IF i > Len(t) THEN i
    ELSE CHOOSE j \in i..(Len(t) + 1) :
             /\ j > Len(t) \/ ~IsDigit(t[j])
             /\ \A k \in i..(j - 1) : IsDigit(t[k])

\* an integer, from its first character (a digit or a minus sign)
Number(t, i) ==
    LET d == IF t[i] = 45 THEN i + 1 ELSE i
    IN  IF d > Len(t) THEN JsonError("eof", "EOF while parsing a value", d)
        ELSE IF ~IsDigit(t[d]) THEN JsonError("syntax", "invalid number", d)
        ELSE IF t[d] = 48 THEN
            IF d + 1 <= Len(t) /\ IsDigit(t[d + 1])
            THEN JsonError("syntax", "invalid number", d + 1)
            ELSE [ok |-> TRUE, next |-> d + 1]
        ELSE [ok |-> TRUE, next |-> Digits(t, d)]

\* a parse that went well goes on with K; one that failed is the result
OnOk(r, K(_)) == IF r.ok THEN K(r) ELSE r

\* IgnoredAny: any value, parsed for its syntax only; what gives the class
\* of the value parsed ("string", "boolean", "null", "integer", "map",
\* "sequence")
RECURSIVE AnyValue(_, _), AnyMembers(_, _, _), AnyElements(_, _, _)
AnyValue(t, i0) ==
    LET Is(what, r) == OnOk(r, LAMBDA x : [ok |-> TRUE, what |-> what, next |-> x.next])
        At(i) ==
            IF i > Len(t) THEN JsonError("eof", "EOF while parsing a value", i)
            ELSE IF t[i] = 34 THEN Is("string", StrBody(t, i + 1, <<>>))
            ELSE IF t[i] = 116 THEN Is("boolean", Ident(t, i, <<116, 114, 117, 101>>))
            ELSE IF t[i] = 102 THEN Is("boolean", Ident(t, i, <<102, 97, 108, 115, 101>>))
            ELSE IF t[i] = 110 THEN Is("null", Ident(t, i, <<110, 117, 108, 108>>))
            ELSE IF t[i] = 45 \/ IsDigit(t[i]) THEN Is("integer", Number(t, i))
            ELSE IF t[i] = 123 THEN AnyMembers(t, i + 1, TRUE)
            ELSE IF t[i] = 91 THEN AnyElements(t, i + 1, TRUE)
            ELSE JsonError("syntax", "expected value", i)
    IN  At(SkipWs(t, i0))

\* the members of an object, from the character after { or after a value
AnyMembers(t, i0, first) ==
    LET Value(c) ==
            IF c > Len(t) THEN JsonError("eof", "EOF while parsing an object", c)
            ELSE IF t[c] # 58 THEN JsonError("syntax", "expected ':'", c)
            ELSE OnOk(AnyValue(t, c + 1), LAMBDA v : AnyMembers(t, v.next, FALSE))
        Key(k) ==
            IF k > Len(t) THEN JsonError("eof", "EOF while parsing a value", k)
            ELSE IF t[k] = 125 THEN JsonError("syntax", "trailing comma", k)
            ELSE IF t[k] # 34 THEN JsonError("syntax", "key must be a string", k)
            ELSE OnOk(StrBody(t, k + 1, <<>>), LAMBDA key : Value(SkipWs(t, key.next)))
        At(i) ==
            IF i > Len(t) THEN JsonError("eof", "EOF while parsing an object", i)
            ELSE IF t[i] = 125 THEN [ok |-> TRUE, what |-> "map", next |-> i + 1]
            ELSE IF ~first /\ t[i] # 44
            THEN JsonError("syntax", "expected ',' or '}'", i)
            ELSE Key(IF first THEN i ELSE SkipWs(t, i + 1))
    IN  At(SkipWs(t, i0))

\* the elements of an array, from the character after [ or after a value
AnyElements(t, i0, first) ==
    LET Element(k) ==
            IF k > Len(t) THEN JsonError("eof", "EOF while parsing a value", k)
            ELSE IF t[k] = 93 THEN JsonError("syntax", "trailing comma", k)
            ELSE OnOk(AnyValue(t, k), LAMBDA v : AnyElements(t, v.next, FALSE))
        At(i) ==
            IF i > Len(t) THEN JsonError("eof", "EOF while parsing a list", i)
            ELSE IF t[i] = 93 THEN [ok |-> TRUE, what |-> "sequence", next |-> i + 1]
            ELSE IF ~first /\ t[i] # 44
            THEN JsonError("syntax", "expected ',' or ']'", i)
            ELSE Element(IF first THEN i ELSE SkipWs(t, i + 1))
    IN  At(SkipWs(t, i0))

---------------------------------------------------------------------------
(* The target shapes and their derived Deserialize.  A struct is            *)
(* [name, fields]; a field is [name, key: the JSON key it is written under  *)
(* (its name, renamed by rename or rename_all), keys: the JSON keys it      *)
(* accepts (key and the aliases), ty: the name of its type without Option,  *)
(* optional: whether it is an Option].  A decoded value is Str(s), Bool(b), *)
(* Num(n), None, Vec(v), Map(m), JsonValue(text) or, for a struct, the     *)
(* record of its fields.                                                    *)

Str(s) == [t |-> "str", s |-> s]
Bool(b) == [t |-> "bool", b |-> b]
Num(n) == [t |-> "int", n |-> n]
Vec(v) == [t |-> "vec", v |-> v]
\* a HashMap: the set of its <<key, value>> entries, one per key
Map(m) == [t |-> "map", m |-> m]
\* a serde_json::Value, kept as the text it was read from without the
\* whitespace between its tokens
JsonValue(text) == [t |-> "value", text |-> text]
None == [t |-> "none"]
Unset == [t |-> "unset"]

\* struct Capability (models.rs)
\*   name: String  keys name
Capability ==
    [name |-> "Capability",
     fields |-> <<
        [name |-> "name", label |-> "name", key |-> <<110, 97, 109, 101>>,
         keys |-> {<<110, 97, 109, 101>>},
         ty |-> "String", optional |-> FALSE] >>]

\* struct Subscription (models.rs)
\*   id: String  keys id
\*   display_name: String  keys display_name | name
\*   state: String  keys state
\*   tenant_id: String  keys tenant_id | tenantId
\*   is_default: Option<bool>  keys is_default | isDefault
Subscription ==
    [name |-> "Subscription",
     fields |-> <<
        [name |-> "id", label |-> "id", key |-> <<105, 100>>,
         keys |-> {<<105, 100>>},
         ty |-> "String", optional |-> FALSE],
        [name |-> "display_name", label |-> "display_name", key |-> <<100, 105, 115, 112, 108, 97, 121, 95, 110, 97, 109, 101>>,
         keys |-> {<<100, 105, 115, 112, 108, 97, 121, 95, 110, 97, 109, 101>>,
                   <<110, 97, 109, 101>>},
         ty |-> "String", optional |-> FALSE],
        [name |-> "state", label |-> "state", key |-> <<115, 116, 97, 116, 101>>,
         keys |-> {<<115, 116, 97, 116, 101>>},
         ty |-> "String", optional |-> FALSE],
        [name |-> "tenant_id", label |-> "tenant_id", key |-> <<116, 101, 110, 97, 110, 116, 95, 105, 100>>,
         keys |-> {<<116, 101, 110, 97, 110, 116, 95, 105, 100>>,
                   <<116, 101, 110, 97, 110, 116, 73, 100>>},
         ty |-> "String", optional |-> FALSE],
        [name |-> "is_default", label |-> "is_default", key |-> <<105, 115, 95, 100, 101, 102, 97, 117, 108, 116>>,
         keys |-> {<<105, 115, 95, 100, 101, 102, 97, 117, 108, 116>>,
                   <<105, 115, 68, 101, 102, 97, 117, 108, 116>>},
         ty |-> "bool", optional |-> TRUE] >>]

\* struct CosmosAccount (models.rs)
\*   name: String  keys name
\*   id: String  keys id
\*   location: String  keys location
\*   resource_group: String  keys resource_group | resourceGroup
\*   resource_type: String  keys type | resourceType | resource_type
\*   kind: String  keys kind
\*   provisioning_state: String  keys provisioning_state | provisioningState
\*   document_endpoint: String  keys document_endpoint | documentEndpoint
\*   tags: Option<HashMap<String,String>>  keys tags
\*   backup_policy: Option<BackupPolicy>  keys backup_policy | backupPolicy
\*   analytical_storage_configuration: Option<AnalyticalStorageConfiguration>  keys analytical_storage_configuration | analyticalStorageConfiguration
\*   api_properties: Option<ApiProperties>  keys api_properties | apiProperties
\*   capabilities: Option<Vec<Capability>>  keys capabilities
\*   capacity: Option<CapacitySettings>  keys capacity
\*   consistency_policy: Option<ConsistencyPolicy>  keys consistency_policy | consistencyPolicy
\*   cors: Option<Vec<CorsPolicy>>  keys cors
\*   create_mode: Option<String>  keys create_mode | createMode
\*   customer_managed_key_status: Option<String>  keys customer_managed_key_status | customerManagedKeyStatus
\*   database_account_offer_type: Option<String>  keys database_account_offer_type | databaseAccountOfferType
\*   default_identity: Option<String>  keys default_identity | defaultIdentity
\*   disable_key_based_metadata_write_access: Option<bool>  keys disable_key_based_metadata_write_access | disableKeyBasedMetadataWriteAccess
\*   disable_local_auth: Option<bool>  keys disable_local_auth | disableLocalAuth
\*   enable_analytical_storage: Option<bool>  keys enable_analytical_storage | enableAnalyticalStorage
\*   enable_automatic_failover: Option<bool>  keys enable_automatic_failover | enableAutomaticFailover
\*   enable_burst_capacity: Option<bool>  keys enable_burst_capacity | enableBurstCapacity
\*   enable_cassandra_connector: Option<bool>  keys enable_cassandra_connector | enableCassandraConnector
\*   enable_free_tier: Option<bool>  keys enable_free_tier | enableFreeTier
\*   enable_multiple_write_locations: Option<bool>  keys enable_multiple_write_locations | enableMultipleWriteLocations
\*   enable_partition_merge: Option<bool>  keys enable_partition_merge | enablePartitionMerge
\*   enable_per_region_per_partition_autoscale: Option<bool>  keys enable_per_region_per_partition_autoscale | enablePerRegionPerPartitionAutoscale
\*   failover_policies: Option<Vec<FailoverPolicy>>  keys failover_policies | failoverPolicies
\*   identity: Option<AccountIdentity>  keys identity
\*   instance_id: Option<String>  keys instance_id | instanceId
\*   ip_rules: Option<Vec<IpRule>>  keys ip_rules | ipRules
\*   is_virtual_network_filter_enabled: Option<bool>  keys is_virtual_network_filter_enabled | isVirtualNetworkFilterEnabled
\*   key_vault_key_uri: Option<String>  keys key_vault_key_uri | keyVaultKeyUri
\*   keys_metadata: Option<KeysMetadata>  keys keys_metadata | keysMetadata
\*   locations: Option<Vec<AccountLocation>>  keys locations
\*   minimal_tls_version: Option<String>  keys minimal_tls_version | minimalTlsVersion
\*   network_acl_bypass: Option<String>  keys network_acl_bypass | networkAclBypass
\*   network_acl_bypass_resource_ids: Option<Vec<String>>  keys network_acl_bypass_resource_ids | networkAclBypassResourceIds
\*   private_endpoint_connections: Option<Vec<PrivateEndpointConnection>>  keys private_endpoint_connections | privateEndpointConnections
\*   public_network_access: Option<String>  keys public_network_access | publicNetworkAccess
\*   read_locations: Option<Vec<AccountLocation>>  keys read_locations | readLocations
\*   restore_parameters: Option<RestoreParameters>  keys restore_parameters | restoreParameters
\*   system_data: Option<SystemData>  keys system_data | systemData
\*   virtual_network_rules: Option<Vec<VirtualNetworkRule>>  keys virtual_network_rules | virtualNetworkRules
\*   write_locations: Option<Vec<AccountLocation>>  keys write_locations | writeLocations
CosmosAccount ==
    [name |-> "CosmosAccount",
     fields |-> <<
        [name |-> "name", label |-> "name", key |-> <<110, 97, 109, 101>>,
         keys |-> {<<110, 97, 109, 101>>},
         ty |-> "String", optional |-> FALSE],
        [name |-> "id", label |-> "id", key |-> <<105, 100>>,
         keys |-> {<<105, 100>>},
         ty |-> "String", optional |-> FALSE],
        [name |-> "location", label |-> "location", key |-> <<108, 111, 99, 97, 116, 105, 111, 110>>,
         keys |-> {<<108, 111, 99, 97, 116, 105, 111, 110>>},
         ty |-> "String", optional |-> FALSE],
        [name |-> "resource_group", label |-> "resource_group", key |-> <<114, 101, 115, 111, 117, 114, 99, 101, 95, 103, 114, 111, 117, 112>>,
         keys |-> {<<114, 101, 115, 111, 117, 114, 99, 101, 95, 103, 114, 111, 117, 112>>,
                   <<114, 101, 115, 111, 117, 114, 99, 101, 71, 114, 111, 117, 112>>},
         ty |-> "String", optional |-> FALSE],
        [name |-> "resource_type", label |-> "type", key |-> <<116, 121, 112, 101>>,
         keys |-> {<<116, 121, 112, 101>>,
                   <<114, 101, 115, 111, 117, 114, 99, 101, 84, 121, 112, 101>>,
                   <<114, 101, 115, 111, 117, 114, 99, 101, 95, 116, 121, 112, 101>>},
         ty |-> "String", optional |-> FALSE],
        [name |-> "kind", label |-> "kind", key |-> <<107, 105, 110, 100>>,
         keys |-> {<<107, 105, 110, 100>>},
         ty |-> "String", optional |-> FALSE],
        [name |-> "provisioning_state", label |-> "provisioning_state", key |-> <<112, 114, 111, 118, 105, 115, 105, 111, 110, 105, 110, 103, 95, 115, 116, 97, 116, 101>>,
         keys |-> {<<112, 114, 111, 118, 105, 115, 105, 111, 110, 105, 110, 103, 95, 115, 116, 97, 116, 101>>,
                   <<112, 114, 111, 118, 105, 115, 105, 111, 110, 105, 110, 103, 83, 116, 97, 116, 101>>},
         ty |-> "String", optional |-> FALSE],
        [name |-> "document_endpoint", label |-> "document_endpoint", key |-> <<100, 111, 99, 117, 109, 101, 110, 116, 95, 101, 110, 100, 112, 111, 105, 110, 116>>,
         keys |-> {<<100, 111, 99, 117, 109, 101, 110, 116, 95, 101, 110, 100, 112, 111, 105, 110, 116>>,
                   <<100, 111, 99, 117, 109, 101, 110, 116, 69, 110, 100, 112, 111, 105, 110, 116>>},
         ty |-> "String", optional |-> FALSE],
        [name |-> "tags", label |-> "tags", key |-> <<116, 97, 103, 115>>,
         keys |-> {<<116, 97, 103, 115>>},
         ty |-> "HashMap<String,String>", optional |-> TRUE],
        [name |-> "backup_policy", label |-> "backup_policy", key |-> <<98, 97, 99, 107, 117, 112, 95, 112, 111, 108, 105, 99, 121>>,
         keys |-> {<<98, 97, 99, 107, 117, 112, 95, 112, 111, 108, 105, 99, 121>>,
                   <<98, 97, 99, 107, 117, 112, 80, 111, 108, 105, 99, 121>>},
         ty |-> "BackupPolicy", optional |-> TRUE],
        [name |-> "analytical_storage_configuration", label |-> "analytical_storage_configuration", key |-> <<97, 110, 97, 108, 121, 116, 105, 99, 97, 108, 95, 115, 116, 111, 114, 97, 103, 101, 95, 99, 111, 110, 102, 105, 103, 117, 114, 97, 116, 105, 111, 110>>,
         keys |-> {<<97, 110, 97, 108, 121, 116, 105, 99, 97, 108, 95, 115, 116, 111, 114, 97, 103, 101, 95, 99, 111, 110, 102, 105, 103, 117, 114, 97, 116, 105, 111, 110>>,
                   <<97, 110, 97, 108, 121, 116, 105, 99, 97, 108, 83, 116, 111, 114, 97, 103, 101, 67, 111, 110, 102, 105, 103, 117, 114, 97, 116, 105, 111, 110>>},
         ty |-> "AnalyticalStorageConfiguration", optional |-> TRUE],
        [name |-> "api_properties", label |-> "api_properties", key |-> <<97, 112, 105, 95, 112, 114, 111, 112, 101, 114, 116, 105, 101, 115>>,
         keys |-> {<<97, 112, 105, 95, 112, 114, 111, 112, 101, 114, 116, 105, 101, 115>>,
                   <<97, 112, 105, 80, 114, 111, 112, 101, 114, 116, 105, 101, 115>>},
         ty |-> "ApiProperties", optional |-> TRUE],
        [name |-> "capabilities", label |-> "capabilities", key |-> <<99, 97, 112, 97, 98, 105, 108, 105, 116, 105, 101, 115>>,
         keys |-> {<<99, 97, 112, 97, 98, 105, 108, 105, 116, 105, 101, 115>>},
         ty |-> "Vec<Capability>", optional |-> TRUE],
        [name |-> "capacity", label |-> "capacity", key |-> <<99, 97, 112, 97, 99, 105, 116, 121>>,
         keys |-> {<<99, 97, 112, 97, 99, 105, 116, 121>>},
         ty |-> "CapacitySettings", optional |-> TRUE],
        [name |-> "consistency_policy", label |-> "consistency_policy", key |-> <<99, 111, 110, 115, 105, 115, 116, 101, 110, 99, 121, 95, 112, 111, 108, 105, 99, 121>>,
         keys |-> {<<99, 111, 110, 115, 105, 115, 116, 101, 110, 99, 121, 95, 112, 111, 108, 105, 99, 121>>,
                   <<99, 111, 110, 115, 105, 115, 116, 101, 110, 99, 121, 80, 111, 108, 105, 99, 121>>},
         ty |-> "ConsistencyPolicy", optional |-> TRUE],
        [name |-> "cors", label |-> "cors", key |-> <<99, 111, 114, 115>>,
         keys |-> {<<99, 111, 114, 115>>},
         ty |-> "Vec<CorsPolicy>", optional |-> TRUE],
        [name |-> "create_mode", label |-> "create_mode", key |-> <<99, 114, 101, 97, 116, 101, 95, 109, 111, 100, 101>>,
         keys |-> {<<99, 114, 101, 97, 116, 101, 95, 109, 111, 100, 101>>,
                   <<99, 114, 101, 97, 116, 101, 77, 111, 100, 101>>},
         ty |-> "String", optional |-> TRUE],
        [name |-> "customer_managed_key_status", label |-> "customer_managed_key_status", key |-> <<99, 117, 115, 116, 111, 109, 101, 114, 95, 109, 97, 110, 97, 103, 101, 100, 95, 107, 101, 121, 95, 115, 116, 97, 116, 117, 115>>,
         keys |-> {<<99, 117, 115, 116, 111, 109, 101, 114, 95, 109, 97, 110, 97, 103, 101, 100, 95, 107, 101, 121, 95, 115, 116, 97, 116, 117, 115>>,
                   <<99, 117, 115, 116, 111, 109, 101, 114, 77, 97, 110, 97, 103, 101, 100, 75, 101, 121, 83, 116, 97, 116, 117, 115>>},
         ty |-> "String", optional |-> TRUE],
        [name |-> "database_account_offer_type", label |-> "database_account_offer_type", key |-> <<100, 97, 116, 97, 98, 97, 115, 101, 95, 97, 99, 99, 111, 117, 110, 116, 95, 111, 102, 102, 101, 114, 95, 116, 121, 112, 101>>,
         keys |-> {<<100, 97, 116, 97, 98, 97, 115, 101, 95, 97, 99, 99, 111, 117, 110, 116, 95, 111, 102, 102, 101, 114, 95, 116, 121, 112, 101>>,
                   <<100, 97, 116, 97, 98, 97, 115, 101, 65, 99, 99, 111, 117, 110, 116, 79, 102, 102, 101, 114, 84, 121, 112, 101>>},
         ty |-> "String", optional |-> TRUE],
        [name |-> "default_identity", label |-> "default_identity", key |-> <<100, 101, 102, 97, 117, 108, 116, 95, 105, 100, 101, 110, 116, 105, 116, 121>>,
         keys |-> {<<100, 101, 102, 97, 117, 108, 116, 95, 105, 100, 101, 110, 116, 105, 116, 121>>,
                   <<100, 101, 102, 97, 117, 108, 116, 73, 100, 101, 110, 116, 105, 116, 121>>},
         ty |-> "String", optional |-> TRUE],
        [name |-> "disable_key_based_metadata_write_access", label |-> "disable_key_based_metadata_write_access", key |-> <<100, 105, 115, 97, 98, 108, 101, 95, 107, 101, 121, 95, 98, 97, 115, 101, 100, 95, 109, 101, 116, 97, 100, 97, 116, 97, 95, 119, 114, 105, 116, 101, 95, 97, 99, 99, 101, 115, 115>>,
         keys |-> {<<100, 105, 115, 97, 98, 108, 101, 95, 107, 101, 121, 95, 98, 97, 115, 101, 100, 95, 109, 101, 116, 97, 100, 97, 116, 97, 95, 119, 114, 105, 116, 101, 95, 97, 99, 99, 101, 115, 115>>,
                   <<100, 105, 115, 97, 98, 108, 101, 75, 101, 121, 66, 97, 115, 101, 100, 77, 101, 116, 97, 100, 97, 116, 97, 87, 114, 105, 116, 101, 65, 99, 99, 101, 115, 115>>},
         ty |-> "bool", optional |-> TRUE],
        [name |-> "disable_local_auth", label |-> "disable_local_auth", key |-> <<100, 105, 115, 97, 98, 108, 101, 95, 108, 111, 99, 97, 108, 95, 97, 117, 116, 104>>,
         keys |-> {<<100, 105, 115, 97, 98, 108, 101, 95, 108, 111, 99, 97, 108, 95, 97, 117, 116, 104>>,
                   <<100, 105, 115, 97, 98, 108, 101, 76, 111, 99, 97, 108, 65, 117, 116, 104>>},
         ty |-> "bool", optional |-> TRUE],
        [name |-> "enable_analytical_storage", label |-> "enable_analytical_storage", key |-> <<101, 110, 97, 98, 108, 101, 95, 97, 110, 97, 108, 121, 116, 105, 99, 97, 108, 95, 115, 116, 111, 114, 97, 103, 101>>,
         keys |-> {<<101, 110, 97, 98, 108, 101, 95, 97, 110, 97, 108, 121, 116, 105, 99, 97, 108, 95, 115, 116, 111, 114, 97, 103, 101>>,
                   <<101, 110, 97, 98, 108, 101, 65, 110, 97, 108, 121, 116, 105, 99, 97, 108, 83, 116, 111, 114, 97, 103, 101>>},
         ty |-> "bool", optional |-> TRUE],
        [name |-> "enable_automatic_failover", label |-> "enable_automatic_failover", key |-> <<101, 110, 97, 98, 108, 101, 95, 97, 117, 116, 111, 109, 97, 116, 105, 99, 95, 102, 97, 105, 108, 111, 118, 101, 114>>,
         keys |-> {<<101, 110, 97, 98, 108, 101, 95, 97, 117, 116, 111, 109, 97, 116, 105, 99, 95, 102, 97, 105, 108, 111, 118, 101, 114>>,
                   <<101, 110, 97, 98, 108, 101, 65, 117, 116, 111, 109, 97, 116, 105, 99, 70, 97, 105, 108, 111, 118, 101, 114>>},
         ty |-> "bool", optional |-> TRUE],
        [name |-> "enable_burst_capacity", label |-> "enable_burst_capacity", key |-> <<101, 110, 97, 98, 108, 101, 95, 98, 117, 114, 115, 116, 95, 99, 97, 112, 97, 99, 105, 116, 121>>,
         keys |-> {<<101, 110, 97, 98, 108, 101, 95, 98, 117, 114, 115, 116, 95, 99, 97, 112, 97, 99, 105, 116, 121>>,
                   <<101, 110, 97, 98, 108, 101, 66, 117, 114, 115, 116, 67, 97, 112, 97, 99, 105, 116, 121>>},
         ty |-> "bool", optional |-> TRUE],
        [name |-> "enable_cassandra_connector", label |-> "enable_cassandra_connector", key |-> <<101, 110, 97, 98, 108, 101, 95, 99, 97, 115, 115, 97, 110, 100, 114, 97, 95, 99, 111, 110, 110, 101, 99, 116, 111, 114>>,
         keys |-> {<<101, 110, 97, 98, 108, 101, 95, 99, 97, 115, 115, 97, 110, 100, 114, 97, 95, 99, 111, 110, 110, 101, 99, 116, 111, 114>>,
                   <<101, 110, 97, 98, 108, 101, 67, 97, 115, 115, 97, 110, 100, 114, 97, 67, 111, 110, 110, 101, 99, 116, 111, 114>>},
         ty |-> "bool", optional |-> TRUE],
        [name |-> "enable_free_tier", label |-> "enable_free_tier", key |-> <<101, 110, 97, 98, 108, 101, 95, 102, 114, 101, 101, 95, 116, 105, 101, 114>>,
         keys |-> {<<101, 110, 97, 98, 108, 101, 95, 102, 114, 101, 101, 95, 116, 105, 101, 114>>,
                   <<101, 110, 97, 98, 108, 101, 70, 114, 101, 101, 84, 105, 101, 114>>},
         ty |-> "bool", optional |-> TRUE],
        [name |-> "enable_multiple_write_locations", label |-> "enable_multiple_write_locations", key |-> <<101, 110, 97, 98, 108, 101, 95, 109, 117, 108, 116, 105, 112, 108, 101, 95, 119, 114, 105, 116, 101, 95, 108, 111, 99, 97, 116, 105, 111, 110, 115>>,
         keys |-> {<<101, 110, 97, 98, 108, 101, 95, 109, 117, 108, 116, 105, 112, 108, 101, 95, 119, 114, 105, 116, 101, 95, 108, 111, 99, 97, 116, 105, 111, 110, 115>>,
                   <<101, 110, 97, 98, 108, 101, 77, 117, 108, 116, 105, 112, 108, 101, 87, 114, 105, 116, 101, 76, 111, 99, 97, 116, 105, 111, 110, 115>>},
         ty |-> "bool", optional |-> TRUE],
        [name |-> "enable_partition_merge", label |-> "enable_partition_merge", key |-> <<101, 110, 97, 98, 108, 101, 95, 112, 97, 114, 116, 105, 116, 105, 111, 110, 95, 109, 101, 114, 103, 101>>,
         keys |-> {<<101, 110, 97, 98, 108, 101, 95, 112, 97, 114, 116, 105, 116, 105, 111, 110, 95, 109, 101, 114, 103, 101>>,
                   <<101, 110, 97, 98, 108, 101, 80, 97, 114, 116, 105, 116, 105, 111, 110, 77, 101, 114, 103, 101>>},
         ty |-> "bool", optional |-> TRUE],
        [name |-> "enable_per_region_per_partition_autoscale", label |-> "enable_per_region_per_partition_autoscale", key |-> <<101, 110, 97, 98, 108, 101, 95, 112, 101, 114, 95, 114, 101, 103, 105, 111, 110, 95, 112, 101, 114, 95, 112, 97, 114, 116, 105, 116, 105, 111, 110, 95, 97, 117, 116, 111, 115, 99, 97, 108, 101>>,
         keys |-> {<<101, 110, 97, 98, 108, 101, 95, 112, 101, 114, 95, 114, 101, 103, 105, 111, 110, 95, 112, 101, 114, 95, 112, 97, 114, 116, 105, 116, 105, 111, 110, 95, 97, 117, 116, 111, 115, 99, 97, 108, 101>>,
                   <<101, 110, 97, 98, 108, 101, 80, 101, 114, 82, 101, 103, 105, 111, 110, 80, 101, 114, 80, 97, 114, 116, 105, 116, 105, 111, 110, 65, 117, 116, 111, 115, 99, 97, 108, 101>>},
         ty |-> "bool", optional |-> TRUE],
        [name |-> "failover_policies", label |-> "failover_policies", key |-> <<102, 97, 105, 108, 111, 118, 101, 114, 95, 112, 111, 108, 105, 99, 105, 101, 115>>,
         keys |-> {<<102, 97, 105, 108, 111, 118, 101, 114, 95, 112, 111, 108, 105, 99, 105, 101, 115>>,
                   <<102, 97, 105, 108, 111, 118, 101, 114, 80, 111, 108, 105, 99, 105, 101, 115>>},
         ty |-> "Vec<FailoverPolicy>", optional |-> TRUE],
        [name |-> "identity", label |-> "identity", key |-> <<105, 100, 101, 110, 116, 105, 116, 121>>,
         keys |-> {<<105, 100, 101, 110, 116, 105, 116, 121>>},
         ty |-> "AccountIdentity", optional |-> TRUE],
        [name |-> "instance_id", label |-> "instance_id", key |-> <<105, 110, 115, 116, 97, 110, 99, 101, 95, 105, 100>>,
         keys |-> {<<105, 110, 115, 116, 97, 110, 99, 101, 95, 105, 100>>,
                   <<105, 110, 115, 116, 97, 110, 99, 101, 73, 100>>},
         ty |-> "String", optional |-> TRUE],
        [name |-> "ip_rules", label |-> "ip_rules", key |-> <<105, 112, 95, 114, 117, 108, 101, 115>>,
         keys |-> {<<105, 112, 95, 114, 117, 108, 101, 115>>,
                   <<105, 112, 82, 117, 108, 101, 115>>},
         ty |-> "Vec<IpRule>", optional |-> TRUE],
        [name |-> "is_virtual_network_filter_enabled", label |-> "is_virtual_network_filter_enabled", key |-> <<105, 115, 95, 118, 105, 114, 116, 117, 97, 108, 95, 110, 101, 116, 119, 111, 114, 107, 95, 102, 105, 108, 116, 101, 114, 95, 101, 110, 97, 98, 108, 101, 100>>,
         keys |-> {<<105, 115, 95, 118, 105, 114, 116, 117, 97, 108, 95, 110, 101, 116, 119, 111, 114, 107, 95, 102, 105, 108, 116, 101, 114, 95, 101, 110, 97, 98, 108, 101, 100>>,
                   <<105, 115, 86, 105, 114, 116, 117, 97, 108, 78, 101, 116, 119, 111, 114, 107, 70, 105, 108, 116, 101, 114, 69, 110, 97, 98, 108, 101, 100>>},
         ty |-> "bool", optional |-> TRUE],
        [name |-> "key_vault_key_uri", label |-> "key_vault_key_uri", key |-> <<107, 101, 121, 95, 118, 97, 117, 108, 116, 95, 107, 101, 121, 95, 117, 114, 105>>,
         keys |-> {<<107, 101, 121, 95, 118, 97, 117, 108, 116, 95, 107, 101, 121, 95, 117, 114, 105>>,
                   <<107, 101, 121, 86, 97, 117, 108, 116, 75, 101, 121, 85, 114, 105>>},
         ty |-> "String", optional |-> TRUE],
        [name |-> "keys_metadata", label |-> "keys_metadata", key |-> <<107, 101, 121, 115, 95, 109, 101, 116, 97, 100, 97, 116, 97>>,
         keys |-> {<<107, 101, 121, 115, 95, 109, 101, 116, 97, 100, 97, 116, 97>>,
                   <<107, 101, 121, 115, 77, 101, 116, 97, 100, 97, 116, 97>>},
         ty |-> "KeysMetadata", optional |-> TRUE],
        [name |-> "locations", label |-> "locations", key |-> <<108, 111, 99, 97, 116, 105, 111, 110, 115>>,
         keys |-> {<<108, 111, 99, 97, 116, 105, 111, 110, 115>>},
         ty |-> "Vec<AccountLocation>", optional |-> TRUE],
        [name |-> "minimal_tls_version", label |-> "minimal_tls_version", key |-> <<109, 105, 110, 105, 109, 97, 108, 95, 116, 108, 115, 95, 118, 101, 114, 115, 105, 111, 110>>,
         keys |-> {<<109, 105, 110, 105, 109, 97, 108, 95, 116, 108, 115, 95, 118, 101, 114, 115, 105, 111, 110>>,
                   <<109, 105, 110, 105, 109, 97, 108, 84, 108, 115, 86, 101, 114, 115, 105, 111, 110>>},
         ty |-> "String", optional |-> TRUE],
        [name |-> "network_acl_bypass", label |-> "network_acl_bypass", key |-> <<110, 101, 116, 119, 111, 114, 107, 95, 97, 99, 108, 95, 98, 121, 112, 97, 115, 115>>,
         keys |-> {<<110, 101, 116, 119, 111, 114, 107, 95, 97, 99, 108, 95, 98, 121, 112, 97, 115, 115>>,
                   <<110, 101, 116, 119, 111, 114, 107, 65, 99, 108, 66, 121, 112, 97, 115, 115>>},
         ty |-> "String", optional |-> TRUE],
        [name |-> "network_acl_bypass_resource_ids", label |-> "network_acl_bypass_resource_ids", key |-> <<110, 101, 116, 119, 111, 114, 107, 95, 97, 99, 108, 95, 98, 121, 112, 97, 115, 115, 95, 114, 101, 115, 111, 117, 114, 99, 101, 95, 105, 100, 115>>,
         keys |-> {<<110, 101, 116, 119, 111, 114, 107, 95, 97, 99, 108, 95, 98, 121, 112, 97, 115, 115, 95, 114, 101, 115, 111, 117, 114, 99, 101, 95, 105, 100, 115>>,
                   <<110, 101, 116, 119, 111, 114, 107, 65, 99, 108, 66, 121, 112, 97, 115, 115, 82, 101, 115, 111, 117, 114, 99, 101, 73, 100, 115>>},
         ty |-> "Vec<String>", optional |-> TRUE],
        [name |-> "private_endpoint_connections", label |-> "private_endpoint_connections", key |-> <<112, 114, 105, 118, 97, 116, 101, 95, 101, 110, 100, 112, 111, 105, 110, 116, 95, 99, 111, 110, 110, 101, 99, 116, 105, 111, 110, 115>>,
         keys |-> {<<112, 114, 105, 118, 97, 116, 101, 95, 101, 110, 100, 112, 111, 105, 110, 116, 95, 99, 111, 110, 110, 101, 99, 116, 105, 111, 110, 115>>,
                   <<112, 114, 105, 118, 97, 116, 101, 69, 110, 100, 112, 111, 105, 110, 116, 67, 111, 110, 110, 101, 99, 116, 105, 111, 110, 115>>},
         ty |-> "Vec<PrivateEndpointConnection>", optional |-> TRUE],
        [name |-> "public_network_access", label |-> "public_network_access", key |-> <<112, 117, 98, 108, 105, 99, 95, 110, 101, 116, 119, 111, 114, 107, 95, 97, 99, 99, 101, 115, 115>>,
         keys |-> {<<112, 117, 98, 108, 105, 99, 95, 110, 101, 116, 119, 111, 114, 107, 95, 97, 99, 99, 101, 115, 115>>,
                   <<112, 117, 98, 108, 105, 99, 78, 101, 116, 119, 111, 114, 107, 65, 99, 99, 101, 115, 115>>},
         ty |-> "String", optional |-> TRUE],
        [name |-> "read_locations", label |-> "read_locations", key |-> <<114, 101, 97, 100, 95, 108, 111, 99, 97, 116, 105, 111, 110, 115>>,
         keys |-> {<<114, 101, 97, 100, 95, 108, 111, 99, 97, 116, 105, 111, 110, 115>>,
                   <<114, 101, 97, 100, 76, 111, 99, 97, 116, 105, 111, 110, 115>>},
         ty |-> "Vec<AccountLocation>", optional |-> TRUE],
        [name |-> "restore_parameters", label |-> "restore_parameters", key |-> <<114, 101, 115, 116, 111, 114, 101, 95, 112, 97, 114, 97, 109, 101, 116, 101, 114, 115>>,
         keys |-> {<<114, 101, 115, 116, 111, 114, 101, 95, 112, 97, 114, 97, 109, 101, 116, 101, 114, 115>>,
                   <<114, 101, 115, 116, 111, 114, 101, 80, 97, 114, 97, 109, 101, 116, 101, 114, 115>>},
         ty |-> "RestoreParameters", optional |-> TRUE],
        [name |-> "system_data", label |-> "system_data", key |-> <<115, 121, 115, 116, 101, 109, 95, 100, 97, 116, 97>>,
         keys |-> {<<115, 121, 115, 116, 101, 109, 95, 100, 97, 116, 97>>,
                   <<115, 121, 115, 116, 101, 109, 68, 97, 116, 97>>},
         ty |-> "SystemData", optional |-> TRUE],
        [name |-> "virtual_network_rules", label |-> "virtual_network_rules", key |-> <<118, 105, 114, 116, 117, 97, 108, 95, 110, 101, 116, 119, 111, 114, 107, 95, 114, 117, 108, 101, 115>>,
         keys |-> {<<118, 105, 114, 116, 117, 97, 108, 95, 110, 101, 116, 119, 111, 114, 107, 95, 114, 117, 108, 101, 115>>,
                   <<118, 105, 114, 116, 117, 97, 108, 78, 101, 116, 119, 111, 114, 107, 82, 117, 108, 101, 115>>},
         ty |-> "Vec<VirtualNetworkRule>", optional |-> TRUE],
        [name |-> "write_locations", label |-> "write_locations", key |-> <<119, 114, 105, 116, 101, 95, 108, 111, 99, 97, 116, 105, 111, 110, 115>>,
         keys |-> {<<119, 114, 105, 116, 101, 95, 108, 111, 99, 97, 116, 105, 111, 110, 115>>,
                   <<119, 114, 105, 116, 101, 76, 111, 99, 97, 116, 105, 111, 110, 115>>},
         ty |-> "Vec<AccountLocation>", optional |-> TRUE] >>]

\* struct ResourceGroup (models.rs)
\*   name: String  keys name
\*   id: String  keys id
\*   location: String  keys location
\*   tags: Option<HashMap<String,String>>  keys tags
\*   properties: Option<ResourceGroupProperties>  keys properties
ResourceGroup ==
    [name |-> "ResourceGroup",
     fields |-> <<
        [name |-> "name", label |-> "name", key |-> <<110, 97, 109, 101>>,
         keys |-> {<<110, 97, 109, 101>>},
         ty |-> "String", optional |-> FALSE],
        [name |-> "id", label |-> "id", key |-> <<105, 100>>,
         keys |-> {<<105, 100>>},
         ty |-> "String", optional |-> FALSE],
        [name |-> "location", label |-> "location", key |-> <<108, 111, 99, 97, 116, 105, 111, 110>>,
         keys |-> {<<108, 111, 99, 97, 116, 105, 111, 110>>},
         ty |-> "String", optional |-> FALSE],
        [name |-> "tags", label |-> "tags", key |-> <<116, 97, 103, 115>>,
         keys |-> {<<116, 97, 103, 115>>},
         ty |-> "HashMap<String,String>", optional |-> TRUE],
        [name |-> "properties", label |-> "properties", key |-> <<112, 114, 111, 112, 101, 114, 116, 105, 101, 115>>,
         keys |-> {<<112, 114, 111, 112, 101, 114, 116, 105, 101, 115>>},
         ty |-> "ResourceGroupProperties", optional |-> TRUE] >>]

\* struct CosmosKeys (models.rs)
\*   primary_master_key: String  keys primaryMasterKey
\*   secondary_master_key: String  keys secondaryMasterKey
\*   primary_readonly_master_key: String  keys primaryReadonlyMasterKey
\*   secondary_readonly_master_key: String  keys secondaryReadonlyMasterKey
CosmosKeys ==
    [name |-> "CosmosKeys",
     fields |-> <<
        [name |-> "primary_master_key", label |-> "primaryMasterKey", key |-> <<112, 114, 105, 109, 97, 114, 121, 77, 97, 115, 116, 101, 114, 75, 101, 121>>,
         keys |-> {<<112, 114, 105, 109, 97, 114, 121, 77, 97, 115, 116, 101, 114, 75, 101, 121>>},
         ty |-> "String", optional |-> FALSE],
        [name |-> "secondary_master_key", label |-> "secondaryMasterKey", key |-> <<115, 101, 99, 111, 110, 100, 97, 114, 121, 77, 97, 115, 116, 101, 114, 75, 101, 121>>,
         keys |-> {<<115, 101, 99, 111, 110, 100, 97, 114, 121, 77, 97, 115, 116, 101, 114, 75, 101, 121>>},
         ty |-> "String", optional |-> FALSE],
        [name |-> "primary_readonly_master_key", label |-> "primaryReadonlyMasterKey", key |-> <<112, 114, 105, 109, 97, 114, 121, 82, 101, 97, 100, 111, 110, 108, 121, 77, 97, 115, 116, 101, 114, 75, 101, 121>>,
         keys |-> {<<112, 114, 105, 109, 97, 114, 121, 82, 101, 97, 100, 111, 110, 108, 121, 77, 97, 115, 116, 101, 114, 75, 101, 121>>},
         ty |-> "String", optional |-> FALSE],
        [name |-> "secondary_readonly_master_key", label |-> "secondaryReadonlyMasterKey", key |-> <<115, 101, 99, 111, 110, 100, 97, 114, 121, 82, 101, 97, 100, 111, 110, 108, 121, 77, 97, 115, 116, 101, 114, 75, 101, 121>>,
         keys |-> {<<115, 101, 99, 111, 110, 100, 97, 114, 121, 82, 101, 97, 100, 111, 110, 108, 121, 77, 97, 115, 116, 101, 114, 75, 101, 121>>},
         ty |-> "String", optional |-> FALSE] >>]

\* struct CosmosConnectionStrings (models.rs)
\*   connection_strings: Vec<ConnectionString>  keys connectionStrings
CosmosConnectionStrings ==
    [name |-> "CosmosConnectionStrings",
     fields |-> <<
        [name |-> "connection_strings", label |-> "connectionStrings", key |-> <<99, 111, 110, 110, 101, 99, 116, 105, 111, 110, 83, 116, 114, 105, 110, 103, 115>>,
         keys |-> {<<99, 111, 110, 110, 101, 99, 116, 105, 111, 110, 83, 116, 114, 105, 110, 103, 115>>},
         ty |-> "Vec<ConnectionString>", optional |-> FALSE] >>]

\* struct CosmosDatabase (models.rs)
\*   name: String  keys name
\*   id: String  keys id
\*   throughput_settings: Option<ThroughputSettings>  keys throughputSettings
CosmosDatabase ==
    [name |-> "CosmosDatabase",
     fields |-> <<
        [name |-> "name", label |-> "name", key |-> <<110, 97, 109, 101>>,
         keys |-> {<<110, 97, 109, 101>>},
         ty |-> "String", optional |-> FALSE],
        [name |-> "id", label |-> "id", key |-> <<105, 100>>,
         keys |-> {<<105, 100>>},
         ty |-> "String", optional |-> FALSE],
        [name |-> "throughput_settings", label |-> "throughputSettings", key |-> <<116, 104, 114, 111, 117, 103, 104, 112, 117, 116, 83, 101, 116, 116, 105, 110, 103, 115>>,
         keys |-> {<<116, 104, 114, 111, 117, 103, 104, 112, 117, 116, 83, 101, 116, 116, 105, 110, 103, 115>>},
         ty |-> "ThroughputSettings", optional |-> TRUE] >>]

\* struct CosmosContainer (models.rs)
\*   name: String  keys name
\*   id: String  keys id
\*   partition_key: Option<PartitionKey>  keys partitionKey
\*   throughput_settings: Option<ThroughputSettings>  keys throughputSettings
\*   indexing_policy: Option<IndexingPolicy>  keys indexingPolicy
CosmosContainer ==
    [name |-> "CosmosContainer",
     fields |-> <<
        [name |-> "name", label |-> "name", key |-> <<110, 97, 109, 101>>,
         keys |-> {<<110, 97, 109, 101>>},
         ty |-> "String", optional |-> FALSE],
        [name |-> "id", label |-> "id", key |-> <<105, 100>>,
         keys |-> {<<105, 100>>},
         ty |-> "String", optional |-> FALSE],
        [name |-> "partition_key", label |-> "partitionKey", key |-> <<112, 97, 114, 116, 105, 116, 105, 111, 110, 75, 101, 121>>,
         keys |-> {<<112, 97, 114, 116, 105, 116, 105, 111, 110, 75, 101, 121>>},
         ty |-> "PartitionKey", optional |-> TRUE],
        [name |-> "throughput_settings", label |-> "throughputSettings", key |-> <<116, 104, 114, 111, 117, 103, 104, 112, 117, 116, 83, 101, 116, 116, 105, 110, 103, 115>>,
         keys |-> {<<116, 104, 114, 111, 117, 103, 104, 112, 117, 116, 83, 101, 116, 116, 105, 110, 103, 115>>},
         ty |-> "ThroughputSettings", optional |-> TRUE],
        [name |-> "indexing_policy", label |-> "indexingPolicy", key |-> <<105, 110, 100, 101, 120, 105, 110, 103, 80, 111, 108, 105, 99, 121>>,
         keys |-> {<<105, 110, 100, 101, 120, 105, 110, 103, 80, 111, 108, 105, 99, 121>>},
         ty |-> "IndexingPolicy", optional |-> TRUE] >>]

\* struct ThroughputSettings (models.rs)
\*   throughput: Option<i32>  keys throughput
\*   autoscale_settings: Option<AutoscaleSettings>  keys autoscaleSettings
ThroughputSettings ==
    [name |-> "ThroughputSettings",
     fields |-> <<
        [name |-> "throughput", label |-> "throughput", key |-> <<116, 104, 114, 111, 117, 103, 104, 112, 117, 116>>,
         keys |-> {<<116, 104, 114, 111, 117, 103, 104, 112, 117, 116>>},
         ty |-> "i32", optional |-> TRUE],
        [name |-> "autoscale_settings", label |-> "autoscaleSettings", key |-> <<97, 117, 116, 111, 115, 99, 97, 108, 101, 83, 101, 116, 116, 105, 110, 103, 115>>,
         keys |-> {<<97, 117, 116, 111, 115, 99, 97, 108, 101, 83, 101, 116, 116, 105, 110, 103, 115>>},
         ty |-> "AutoscaleSettings", optional |-> TRUE] >>]

\* struct AccountLocation (models.rs)
\*   location_name: String  keys locationName
\*   provisioning_state: String  keys provisioningState
\*   failover_priority: i32  keys failoverPriority
\*   is_zone_redundant: Option<bool>  keys isZoneRedundant
\*   id: Option<String>  keys id
\*   document_endpoint: Option<String>  keys documentEndpoint
AccountLocation ==
    [name |-> "AccountLocation",
     fields |-> <<
        [name |-> "location_name", label |-> "locationName", key |-> <<108, 111, 99, 97, 116, 105, 111, 110, 78, 97, 109, 101>>,
         keys |-> {<<108, 111, 99, 97, 116, 105, 111, 110, 78, 97, 109, 101>>},
         ty |-> "String", optional |-> FALSE],
        [name |-> "provisioning_state", label |-> "provisioningState", key |-> <<112, 114, 111, 118, 105, 115, 105, 111, 110, 105, 110, 103, 83, 116, 97, 116, 101>>,
         keys |-> {<<112, 114, 111, 118, 105, 115, 105, 111, 110, 105, 110, 103, 83, 116, 97, 116, 101>>},
         ty |-> "String", optional |-> FALSE],
        [name |-> "failover_priority", label |-> "failoverPriority", key |-> <<102, 97, 105, 108, 111, 118, 101, 114, 80, 114, 105, 111, 114, 105, 116, 121>>,
         keys |-> {<<102, 97, 105, 108, 111, 118, 101, 114, 80, 114, 105, 111, 114, 105, 116, 121>>},
         ty |-> "i32", optional |-> FALSE],
        [name |-> "is_zone_redundant", label |-> "isZoneRedundant", key |-> <<105, 115, 90, 111, 110, 101, 82, 101, 100, 117, 110, 100, 97, 110, 116>>,
         keys |-> {<<105, 115, 90, 111, 110, 101, 82, 101, 100, 117, 110, 100, 97, 110, 116>>},
         ty |-> "bool", optional |-> TRUE],
        [name |-> "id", label |-> "id", key |-> <<105, 100>>,
         keys |-> {<<105, 100>>},
         ty |-> "String", optional |-> TRUE],
        [name |-> "document_endpoint", label |-> "documentEndpoint", key |-> <<100, 111, 99, 117, 109, 101, 110, 116, 69, 110, 100, 112, 111, 105, 110, 116>>,
         keys |-> {<<100, 111, 99, 117, 109, 101, 110, 116, 69, 110, 100, 112, 111, 105, 110, 116>>},
         ty |-> "String", optional |-> TRUE] >>]

\* struct account::ResourceGroup (account.rs)
\*   name: String  keys name
\*   location: String  keys location
\*   properties: ResourceGroupProperties  keys properties
\*   tags: Option<HashMap<String,String>>  keys tags
\*   id: String  keys id
\*   managed_by: Option<String>  keys managed_by | managedBy
AccountResourceGroup ==
    [name |-> "account::ResourceGroup",
     fields |-> <<
        [name |-> "name", label |-> "name", key |-> <<110, 97, 109, 101>>,
         keys |-> {<<110, 97, 109, 101>>},
         ty |-> "String", optional |-> FALSE],
        [name |-> "location", label |-> "location", key |-> <<108, 111, 99, 97, 116, 105, 111, 110>>,
         keys |-> {<<108, 111, 99, 97, 116, 105, 111, 110>>},
         ty |-> "String", optional |-> FALSE],
        [name |-> "properties", label |-> "properties", key |-> <<112, 114, 111, 112, 101, 114, 116, 105, 101, 115>>,
         keys |-> {<<112, 114, 111, 112, 101, 114, 116, 105, 101, 115>>},
         ty |-> "ResourceGroupProperties", optional |-> FALSE],
        [name |-> "tags", label |-> "tags", key |-> <<116, 97, 103, 115>>,
         keys |-> {<<116, 97, 103, 115>>},
         ty |-> "HashMap<String,String>", optional |-> TRUE],
        [name |-> "id", label |-> "id", key |-> <<105, 100>>,
         keys |-> {<<105, 100>>},
         ty |-> "String", optional |-> FALSE],
        [name |-> "managed_by", label |-> "managed_by", key |-> <<109, 97, 110, 97, 103, 101, 100, 95, 98, 121>>,
         keys |-> {<<109, 97, 110, 97, 103, 101, 100, 95, 98, 121>>,
                   <<109, 97, 110, 97, 103, 101, 100, 66, 121>>},
         ty |-> "String", optional |-> TRUE] >>]

\* the structs of models.rs that occur only inside other structs
NestedStruct(name) ==
    \* struct ResourceGroupProperties
    \*   provisioning_state: String  keys provisioning_state | provisioningState
    CASE name = "ResourceGroupProperties" ->
        [name |-> "ResourceGroupProperties",
         fields |-> <<
            [name |-> "provisioning_state", label |-> "provisioning_state", key |-> <<112, 114, 111, 118, 105, 115, 105, 111, 110, 105, 110, 103, 95, 115, 116, 97, 116, 101>>,
             keys |-> {<<112, 114, 111, 118, 105, 115, 105, 111, 110, 105, 110, 103, 95, 115, 116, 97, 116, 101>>,
                       <<112, 114, 111, 118, 105, 115, 105, 111, 110, 105, 110, 103, 83, 116, 97, 116, 101>>},
             ty |-> "String", optional |-> FALSE] >>]
    \* struct AnalyticalStorageConfiguration
    \*   schema_type: Option<String>  keys schemaType
      [] name = "AnalyticalStorageConfiguration" ->
        [name |-> "AnalyticalStorageConfiguration",
         fields |-> <<
            [name |-> "schema_type", label |-> "schemaType", key |-> <<115, 99, 104, 101, 109, 97, 84, 121, 112, 101>>,
             keys |-> {<<115, 99, 104, 101, 109, 97, 84, 121, 112, 101>>},
             ty |-> "String", optional |-> TRUE] >>]
    \* struct ApiProperties
    \*   server_version: Option<String>  keys serverVersion
      [] name = "ApiProperties" ->
        [name |-> "ApiProperties",
         fields |-> <<
            [name |-> "server_version", label |-> "serverVersion", key |-> <<115, 101, 114, 118, 101, 114, 86, 101, 114, 115, 105, 111, 110>>,
             keys |-> {<<115, 101, 114, 118, 101, 114, 86, 101, 114, 115, 105, 111, 110>>},
             ty |-> "String", optional |-> TRUE] >>]
    \* struct BackupPolicy
    \*   backup_type: String  keys type
    \*   migration_state: Option<String>  keys migrationState
    \*   periodic_mode_properties: Option<PeriodicBackupProperties>  keys periodicModeProperties
    \*   continuous_mode_properties: Option<ContinuousBackupProperties>  keys continuousModeProperties
      [] name = "BackupPolicy" ->
        [name |-> "BackupPolicy",
         fields |-> <<
            [name |-> "backup_type", label |-> "type", key |-> <<116, 121, 112, 101>>,
             keys |-> {<<116, 121, 112, 101>>},
             ty |-> "String", optional |-> FALSE],
            [name |-> "migration_state", label |-> "migrationState", key |-> <<109, 105, 103, 114, 97, 116, 105, 111, 110, 83, 116, 97, 116, 101>>,
             keys |-> {<<109, 105, 103, 114, 97, 116, 105, 111, 110, 83, 116, 97, 116, 101>>},
             ty |-> "String", optional |-> TRUE],
            [name |-> "periodic_mode_properties", label |-> "periodicModeProperties", key |-> <<112, 101, 114, 105, 111, 100, 105, 99, 77, 111, 100, 101, 80, 114, 111, 112, 101, 114, 116, 105, 101, 115>>,
             keys |-> {<<112, 101, 114, 105, 111, 100, 105, 99, 77, 111, 100, 101, 80, 114, 111, 112, 101, 114, 116, 105, 101, 115>>},
             ty |-> "PeriodicBackupProperties", optional |-> TRUE],
            [name |-> "continuous_mode_properties", label |-> "continuousModeProperties", key |-> <<99, 111, 110, 116, 105, 110, 117, 111, 117, 115, 77, 111, 100, 101, 80, 114, 111, 112, 101, 114, 116, 105, 101, 115>>,
             keys |-> {<<99, 111, 110, 116, 105, 110, 117, 111, 117, 115, 77, 111, 100, 101, 80, 114, 111, 112, 101, 114, 116, 105, 101, 115>>},
             ty |-> "ContinuousBackupProperties", optional |-> TRUE] >>]
    \* struct PeriodicBackupProperties
    \*   backup_interval_in_minutes: Option<i32>  keys backupIntervalInMinutes
    \*   backup_retention_interval_in_hours: Option<i32>  keys backupRetentionIntervalInHours
    \*   backup_storage_redundancy: Option<String>  keys backupStorageRedundancy
      [] name = "PeriodicBackupProperties" ->
        [name |-> "PeriodicBackupProperties",
         fields |-> <<
            [name |-> "backup_interval_in_minutes", label |-> "backupIntervalInMinutes", key |-> <<98, 97, 99, 107, 117, 112, 73, 110, 116, 101, 114, 118, 97, 108, 73, 110, 77, 105, 110, 117, 116, 101, 115>>,
             keys |-> {<<98, 97, 99, 107, 117, 112, 73, 110, 116, 101, 114, 118, 97, 108, 73, 110, 77, 105, 110, 117, 116, 101, 115>>},
             ty |-> "i32", optional |-> TRUE],
            [name |-> "backup_retention_interval_in_hours", label |-> "backupRetentionIntervalInHours", key |-> <<98, 97, 99, 107, 117, 112, 82, 101, 116, 101, 110, 116, 105, 111, 110, 73, 110, 116, 101, 114, 118, 97, 108, 73, 110, 72, 111, 117, 114, 115>>,
             keys |-> {<<98, 97, 99, 107, 117, 112, 82, 101, 116, 101, 110, 116, 105, 111, 110, 73, 110, 116, 101, 114, 118, 97, 108, 73, 110, 72, 111, 117, 114, 115>>},
             ty |-> "i32", optional |-> TRUE],
            [name |-> "backup_storage_redundancy", label |-> "backupStorageRedundancy", key |-> <<98, 97, 99, 107, 117, 112, 83, 116, 111, 114, 97, 103, 101, 82, 101, 100, 117, 110, 100, 97, 110, 99, 121>>,
             keys |-> {<<98, 97, 99, 107, 117, 112, 83, 116, 111, 114, 97, 103, 101, 82, 101, 100, 117, 110, 100, 97, 110, 99, 121>>},
             ty |-> "String", optional |-> TRUE] >>]
    \* struct ContinuousBackupProperties
    \*   tier: Option<String>  keys tier
      [] name = "ContinuousBackupProperties" ->
        [name |-> "ContinuousBackupProperties",
         fields |-> <<
            [name |-> "tier", label |-> "tier", key |-> <<116, 105, 101, 114>>,
             keys |-> {<<116, 105, 101, 114>>},
             ty |-> "String", optional |-> TRUE] >>]
    \* struct FailoverPolicy
    \*   failover_priority: i32  keys failoverPriority
    \*   id: Option<String>  keys id
    \*   location_name: String  keys locationName
      [] name = "FailoverPolicy" ->
        [name |-> "FailoverPolicy",
         fields |-> <<
            [name |-> "failover_priority", label |-> "failoverPriority", key |-> <<102, 97, 105, 108, 111, 118, 101, 114, 80, 114, 105, 111, 114, 105, 116, 121>>,
             keys |-> {<<102, 97, 105, 108, 111, 118, 101, 114, 80, 114, 105, 111, 114, 105, 116, 121>>},
             ty |-> "i32", optional |-> FALSE],
            [name |-> "id", label |-> "id", key |-> <<105, 100>>,
             keys |-> {<<105, 100>>},
             ty |-> "String", optional |-> TRUE],
            [name |-> "location_name", label |-> "locationName", key |-> <<108, 111, 99, 97, 116, 105, 111, 110, 78, 97, 109, 101>>,
             keys |-> {<<108, 111, 99, 97, 116, 105, 111, 110, 78, 97, 109, 101>>},
             ty |-> "String", optional |-> FALSE] >>]
    \* struct AccountIdentity
    \*   principal_id: Option<String>  keys principalId
    \*   tenant_id: Option<String>  keys tenantId
    \*   identity_type: Option<String>  keys type
    \*   user_assigned_identities: Option<HashMap<String,Value>>  keys userAssignedIdentities
      [] name = "AccountIdentity" ->
        [name |-> "AccountIdentity",
         fields |-> <<
            [name |-> "principal_id", label |-> "principalId", key |-> <<112, 114, 105, 110, 99, 105, 112, 97, 108, 73, 100>>,
             keys |-> {<<112, 114, 105, 110, 99, 105, 112, 97, 108, 73, 100>>},
             ty |-> "String", optional |-> TRUE],
            [name |-> "tenant_id", label |-> "tenantId", key |-> <<116, 101, 110, 97, 110, 116, 73, 100>>,
             keys |-> {<<116, 101, 110, 97, 110, 116, 73, 100>>},
             ty |-> "String", optional |-> TRUE],
            [name |-> "identity_type", label |-> "type", key |-> <<116, 121, 112, 101>>,
             keys |-> {<<116, 121, 112, 101>>},
             ty |-> "String", optional |-> TRUE],
            [name |-> "user_assigned_identities", label |-> "userAssignedIdentities", key |-> <<117, 115, 101, 114, 65, 115, 115, 105, 103, 110, 101, 100, 73, 100, 101, 110, 116, 105, 116, 105, 101, 115>>,
             keys |-> {<<117, 115, 101, 114, 65, 115, 115, 105, 103, 110, 101, 100, 73, 100, 101, 110, 116, 105, 116, 105, 101, 115>>},
             ty |-> "HashMap<String,Value>", optional |-> TRUE] >>]
    \* struct IpRule
    \*   ip_address_or_range: String  keys ipAddressOrRange
      [] name = "IpRule" ->
        [name |-> "IpRule",
         fields |-> <<
            [name |-> "ip_address_or_range", label |-> "ipAddressOrRange", key |-> <<105, 112, 65, 100, 100, 114, 101, 115, 115, 79, 114, 82, 97, 110, 103, 101>>,
             keys |-> {<<105, 112, 65, 100, 100, 114, 101, 115, 115, 79, 114, 82, 97, 110, 103, 101>>},
             ty |-> "String", optional |-> FALSE] >>]
    \* struct KeysMetadata
    \*   primary_master_key: Option<KeyMetadata>  keys primaryMasterKey
    \*   primary_readonly_master_key: Option<KeyMetadata>  keys primaryReadonlyMasterKey
    \*   secondary_master_key: Option<KeyMetadata>  keys secondaryMasterKey
    \*   secondary_readonly_master_key: Option<KeyMetadata>  keys secondaryReadonlyMasterKey
      [] name = "KeysMetadata" ->
        [name |-> "KeysMetadata",
         fields |-> <<
            [name |-> "primary_master_key", label |-> "primaryMasterKey", key |-> <<112, 114, 105, 109, 97, 114, 121, 77, 97, 115, 116, 101, 114, 75, 101, 121>>,
             keys |-> {<<112, 114, 105, 109, 97, 114, 121, 77, 97, 115, 116, 101, 114, 75, 101, 121>>},
             ty |-> "KeyMetadata", optional |-> TRUE],
            [name |-> "primary_readonly_master_key", label |-> "primaryReadonlyMasterKey", key |-> <<112, 114, 105, 109, 97, 114, 121, 82, 101, 97, 100, 111, 110, 108, 121, 77, 97, 115, 116, 101, 114, 75, 101, 121>>,
             keys |-> {<<112, 114, 105, 109, 97, 114, 121, 82, 101, 97, 100, 111, 110, 108, 121, 77, 97, 115, 116, 101, 114, 75, 101, 121>>},
             ty |-> "KeyMetadata", optional |-> TRUE],
            [name |-> "secondary_master_key", label |-> "secondaryMasterKey", key |-> <<115, 101, 99, 111, 110, 100, 97, 114, 121, 77, 97, 115, 116, 101, 114, 75, 101, 121>>,
             keys |-> {<<115, 101, 99, 111, 110, 100, 97, 114, 121, 77, 97, 115, 116, 101, 114, 75, 101, 121>>},
             ty |-> "KeyMetadata", optional |-> TRUE],
            [name |-> "secondary_readonly_master_key", label |-> "secondaryReadonlyMasterKey", key |-> <<115, 101, 99, 111, 110, 100, 97, 114, 121, 82, 101, 97, 100, 111, 110, 108, 121, 77, 97, 115, 116, 101, 114, 75, 101, 121>>,
             keys |-> {<<115, 101, 99, 111, 110, 100, 97, 114, 121, 82, 101, 97, 100, 111, 110, 108, 121, 77, 97, 115, 116, 101, 114, 75, 101, 121>>},
             ty |-> "KeyMetadata", optional |-> TRUE] >>]
    \* struct KeyMetadata
    \*   generation_time: Option<String>  keys generationTime
      [] name = "KeyMetadata" ->
        [name |-> "KeyMetadata",
         fields |-> <<
            [name |-> "generation_time", label |-> "generationTime", key |-> <<103, 101, 110, 101, 114, 97, 116, 105, 111, 110, 84, 105, 109, 101>>,
             keys |-> {<<103, 101, 110, 101, 114, 97, 116, 105, 111, 110, 84, 105, 109, 101>>},
             ty |-> "String", optional |-> TRUE] >>]
    \* struct PrivateEndpointConnection
    \*   id: Option<String>  keys id
    \*   name: Option<String>  keys name
    \*   connection_type: Option<String>  keys type
    \*   group_id: Option<String>  keys groupId
    \*   private_endpoint: Option<PrivateEndpoint>  keys privateEndpoint
    \*   private_link_service_connection_state: Option<PrivateLinkServiceConnectionState>  keys privateLinkServiceConnectionState
    \*   provisioning_state: Option<String>  keys provisioningState
    \*   resource_group: Option<String>  keys resourceGroup
      [] name = "PrivateEndpointConnection" ->
        [name |-> "PrivateEndpointConnection",
         fields |-> <<
            [name |-> "id", label |-> "id", key |-> <<105, 100>>,
             keys |-> {<<105, 100>>},
             ty |-> "String", optional |-> TRUE],
            [name |-> "name", label |-> "name", key |-> <<110, 97, 109, 101>>,
             keys |-> {<<110, 97, 109, 101>>},
             ty |-> "String", optional |-> TRUE],
            [name |-> "connection_type", label |-> "type", key |-> <<116, 121, 112, 101>>,
             keys |-> {<<116, 121, 112, 101>>},
             ty |-> "String", optional |-> TRUE],
            [name |-> "group_id", label |-> "groupId", key |-> <<103, 114, 111, 117, 112, 73, 100>>,
             keys |-> {<<103, 114, 111, 117, 112, 73, 100>>},
             ty |-> "String", optional |-> TRUE],
            [name |-> "private_endpoint", label |-> "privateEndpoint", key |-> <<112, 114, 105, 118, 97, 116, 101, 69, 110, 100, 112, 111, 105, 110, 116>>,
             keys |-> {<<112, 114, 105, 118, 97, 116, 101, 69, 110, 100, 112, 111, 105, 110, 116>>},
             ty |-> "PrivateEndpoint", optional |-> TRUE],
            [name |-> "private_link_service_connection_state", label |-> "privateLinkServiceConnectionState", key |-> <<112, 114, 105, 118, 97, 116, 101, 76, 105, 110, 107, 83, 101, 114, 118, 105, 99, 101, 67, 111, 110, 110, 101, 99, 116, 105, 111, 110, 83, 116, 97, 116, 101>>,
             keys |-> {<<112, 114, 105, 118, 97, 116, 101, 76, 105, 110, 107, 83, 101, 114, 118, 105, 99, 101, 67, 111, 110, 110, 101, 99, 116, 105, 111, 110, 83, 116, 97, 116, 101>>},
             ty |-> "PrivateLinkServiceConnectionState", optional |-> TRUE],
            [name |-> "provisioning_state", label |-> "provisioningState", key |-> <<112, 114, 111, 118, 105, 115, 105, 111, 110, 105, 110, 103, 83, 116, 97, 116, 101>>,
             keys |-> {<<112, 114, 111, 118, 105, 115, 105, 111, 110, 105, 110, 103, 83, 116, 97, 116, 101>>},
             ty |-> "String", optional |-> TRUE],
            [name |-> "resource_group", label |-> "resourceGroup", key |-> <<114, 101, 115, 111, 117, 114, 99, 101, 71, 114, 111, 117, 112>>,
             keys |-> {<<114, 101, 115, 111, 117, 114, 99, 101, 71, 114, 111, 117, 112>>},
             ty |-> "String", optional |-> TRUE] >>]
    \* struct PrivateEndpoint
    \*   id: String  keys id
    \*   resource_group: Option<String>  keys resourceGroup
      [] name = "PrivateEndpoint" ->
        [name |-> "PrivateEndpoint",
         fields |-> <<
            [name |-> "id", label |-> "id", key |-> <<105, 100>>,
             keys |-> {<<105, 100>>},
             ty |-> "String", optional |-> FALSE],
            [name |-> "resource_group", label |-> "resourceGroup", key |-> <<114, 101, 115, 111, 117, 114, 99, 101, 71, 114, 111, 117, 112>>,
             keys |-> {<<114, 101, 115, 111, 117, 114, 99, 101, 71, 114, 111, 117, 112>>},
             ty |-> "String", optional |-> TRUE] >>]
    \* struct PrivateLinkServiceConnectionState
    \*   actions_required: Option<String>  keys actionsRequired
    \*   description: Option<String>  keys description
    \*   status: Option<String>  keys status
      [] name = "PrivateLinkServiceConnectionState" ->
        [name |-> "PrivateLinkServiceConnectionState",
         fields |-> <<
            [name |-> "actions_required", label |-> "actionsRequired", key |-> <<97, 99, 116, 105, 111, 110, 115, 82, 101, 113, 117, 105, 114, 101, 100>>,
             keys |-> {<<97, 99, 116, 105, 111, 110, 115, 82, 101, 113, 117, 105, 114, 101, 100>>},
             ty |-> "String", optional |-> TRUE],
            [name |-> "description", label |-> "description", key |-> <<100, 101, 115, 99, 114, 105, 112, 116, 105, 111, 110>>,
             keys |-> {<<100, 101, 115, 99, 114, 105, 112, 116, 105, 111, 110>>},
             ty |-> "String", optional |-> TRUE],
            [name |-> "status", label |-> "status", key |-> <<115, 116, 97, 116, 117, 115>>,
             keys |-> {<<115, 116, 97, 116, 117, 115>>},
             ty |-> "String", optional |-> TRUE] >>]
    \* struct RestoreParameters
    \*   restore_mode: Option<String>  keys restoreMode
    \*   restore_source: Option<String>  keys restoreSource
    \*   restore_timestamp_in_utc: Option<String>  keys restoreTimestampInUtc
      [] name = "RestoreParameters" ->
        [name |-> "RestoreParameters",
         fields |-> <<
            [name |-> "restore_mode", label |-> "restoreMode", key |-> <<114, 101, 115, 116, 111, 114, 101, 77, 111, 100, 101>>,
             keys |-> {<<114, 101, 115, 116, 111, 114, 101, 77, 111, 100, 101>>},
             ty |-> "String", optional |-> TRUE],
            [name |-> "restore_source", label |-> "restoreSource", key |-> <<114, 101, 115, 116, 111, 114, 101, 83, 111, 117, 114, 99, 101>>,
             keys |-> {<<114, 101, 115, 116, 111, 114, 101, 83, 111, 117, 114, 99, 101>>},
             ty |-> "String", optional |-> TRUE],
            [name |-> "restore_timestamp_in_utc", label |-> "restoreTimestampInUtc", key |-> <<114, 101, 115, 116, 111, 114, 101, 84, 105, 109, 101, 115, 116, 97, 109, 112, 73, 110, 85, 116, 99>>,
             keys |-> {<<114, 101, 115, 116, 111, 114, 101, 84, 105, 109, 101, 115, 116, 97, 109, 112, 73, 110, 85, 116, 99>>},
             ty |-> "String", optional |-> TRUE] >>]
    \* struct SystemData
    \*   created_at: Option<String>  keys createdAt
    \*   created_by: Option<String>  keys createdBy
    \*   created_by_type: Option<String>  keys createdByType
    \*   last_modified_at: Option<String>  keys lastModifiedAt
    \*   last_modified_by: Option<String>  keys lastModifiedBy
    \*   last_modified_by_type: Option<String>  keys lastModifiedByType
      [] name = "SystemData" ->
        [name |-> "SystemData",
         fields |-> <<
            [name |-> "created_at", label |-> "createdAt", key |-> <<99, 114, 101, 97, 116, 101, 100, 65, 116>>,
             keys |-> {<<99, 114, 101, 97, 116, 101, 100, 65, 116>>},
             ty |-> "String", optional |-> TRUE],
            [name |-> "created_by", label |-> "createdBy", key |-> <<99, 114, 101, 97, 116, 101, 100, 66, 121>>,
             keys |-> {<<99, 114, 101, 97, 116, 101, 100, 66, 121>>},
             ty |-> "String", optional |-> TRUE],
            [name |-> "created_by_type", label |-> "createdByType", key |-> <<99, 114, 101, 97, 116, 101, 100, 66, 121, 84, 121, 112, 101>>,
             keys |-> {<<99, 114, 101, 97, 116, 101, 100, 66, 121, 84, 121, 112, 101>>},
             ty |-> "String", optional |-> TRUE],
            [name |-> "last_modified_at", label |-> "lastModifiedAt", key |-> <<108, 97, 115, 116, 77, 111, 100, 105, 102, 105, 101, 100, 65, 116>>,
             keys |-> {<<108, 97, 115, 116, 77, 111, 100, 105, 102, 105, 101, 100, 65, 116>>},
             ty |-> "String", optional |-> TRUE],
            [name |-> "last_modified_by", label |-> "lastModifiedBy", key |-> <<108, 97, 115, 116, 77, 111, 100, 105, 102, 105, 101, 100, 66, 121>>,
             keys |-> {<<108, 97, 115, 116, 77, 111, 100, 105, 102, 105, 101, 100, 66, 121>>},
             ty |-> "String", optional |-> TRUE],
            [name |-> "last_modified_by_type", label |-> "lastModifiedByType", key |-> <<108, 97, 115, 116, 77, 111, 100, 105, 102, 105, 101, 100, 66, 121, 84, 121, 112, 101>>,
             keys |-> {<<108, 97, 115, 116, 77, 111, 100, 105, 102, 105, 101, 100, 66, 121, 84, 121, 112, 101>>},
             ty |-> "String", optional |-> TRUE] >>]
    \* struct VirtualNetworkRule
    \*   id: String  keys id
    \*   ignore_missing_vnet_service_endpoint: Option<bool>  keys ignoreMissingVnetServiceEndpoint
    \*   resource_group: Option<String>  keys resourceGroup
      [] name = "VirtualNetworkRule" ->
        [name |-> "VirtualNetworkRule",
         fields |-> <<
            [name |-> "id", label |-> "id", key |-> <<105, 100>>,
             keys |-> {<<105, 100>>},
             ty |-> "String", optional |-> FALSE],
            [name |-> "ignore_missing_vnet_service_endpoint", label |-> "ignoreMissingVnetServiceEndpoint", key |-> <<105, 103, 110, 111, 114, 101, 77, 105, 115, 115, 105, 110, 103, 86, 110, 101, 116, 83, 101, 114, 118, 105, 99, 101, 69, 110, 100, 112, 111, 105, 110, 116>>,
             keys |-> {<<105, 103, 110, 111, 114, 101, 77, 105, 115, 115, 105, 110, 103, 86, 110, 101, 116, 83, 101, 114, 118, 105, 99, 101, 69, 110, 100, 112, 111, 105, 110, 116>>},
             ty |-> "bool", optional |-> TRUE],
            [name |-> "resource_group", label |-> "resourceGroup", key |-> <<114, 101, 115, 111, 117, 114, 99, 101, 71, 114, 111, 117, 112>>,
             keys |-> {<<114, 101, 115, 111, 117, 114, 99, 101, 71, 114, 111, 117, 112>>},
             ty |-> "String", optional |-> TRUE] >>]
    \* struct CapacitySettings
    \*   total_throughput_limit: Option<i32>  keys totalThroughputLimit
      [] name = "CapacitySettings" ->
        [name |-> "CapacitySettings",
         fields |-> <<
            [name |-> "total_throughput_limit", label |-> "totalThroughputLimit", key |-> <<116, 111, 116, 97, 108, 84, 104, 114, 111, 117, 103, 104, 112, 117, 116, 76, 105, 109, 105, 116>>,
             keys |-> {<<116, 111, 116, 97, 108, 84, 104, 114, 111, 117, 103, 104, 112, 117, 116, 76, 105, 109, 105, 116>>},
             ty |-> "i32", optional |-> TRUE] >>]
    \* struct ConsistencyPolicy
    \*   default_consistency_level: String  keys defaultConsistencyLevel
    \*   max_staleness_prefix: Option<i64>  keys maxStalenessPrefix
    \*   max_interval_in_seconds: Option<i32>  keys maxIntervalInSeconds
      [] name = "ConsistencyPolicy" ->
        [name |-> "ConsistencyPolicy",
         fields |-> <<
            [name |-> "default_consistency_level", label |-> "defaultConsistencyLevel", key |-> <<100, 101, 102, 97, 117, 108, 116, 67, 111, 110, 115, 105, 115, 116, 101, 110, 99, 121, 76, 101, 118, 101, 108>>,
             keys |-> {<<100, 101, 102, 97, 117, 108, 116, 67, 111, 110, 115, 105, 115, 116, 101, 110, 99, 121, 76, 101, 118, 101, 108>>},
             ty |-> "String", optional |-> FALSE],
            [name |-> "max_staleness_prefix", label |-> "maxStalenessPrefix", key |-> <<109, 97, 120, 83, 116, 97, 108, 101, 110, 101, 115, 115, 80, 114, 101, 102, 105, 120>>,
             keys |-> {<<109, 97, 120, 83, 116, 97, 108, 101, 110, 101, 115, 115, 80, 114, 101, 102, 105, 120>>},
             ty |-> "i64", optional |-> TRUE],
            [name |-> "max_interval_in_seconds", label |-> "maxIntervalInSeconds", key |-> <<109, 97, 120, 73, 110, 116, 101, 114, 118, 97, 108, 73, 110, 83, 101, 99, 111, 110, 100, 115>>,
             keys |-> {<<109, 97, 120, 73, 110, 116, 101, 114, 118, 97, 108, 73, 110, 83, 101, 99, 111, 110, 100, 115>>},
             ty |-> "i32", optional |-> TRUE] >>]
    \* struct CorsPolicy
    \*   allowed_origins: String  keys allowedOrigins
    \*   allowed_methods: String  keys allowedMethods
    \*   allowed_headers: String  keys allowedHeaders
    \*   exposed_headers: String  keys exposedHeaders
    \*   max_age_in_seconds: Option<i32>  keys maxAgeInSeconds
      [] name = "CorsPolicy" ->
        [name |-> "CorsPolicy",
         fields |-> <<
            [name |-> "allowed_origins", label |-> "allowedOrigins", key |-> <<97, 108, 108, 111, 119, 101, 100, 79, 114, 105, 103, 105, 110, 115>>,
             keys |-> {<<97, 108, 108, 111, 119, 101, 100, 79, 114, 105, 103, 105, 110, 115>>},
             ty |-> "String", optional |-> FALSE],
            [name |-> "allowed_methods", label |-> "allowedMethods", key |-> <<97, 108, 108, 111, 119, 101, 100, 77, 101, 116, 104, 111, 100, 115>>,
             keys |-> {<<97, 108, 108, 111, 119, 101, 100, 77, 101, 116, 104, 111, 100, 115>>},
             ty |-> "String", optional |-> FALSE],
            [name |-> "allowed_headers", label |-> "allowedHeaders", key |-> <<97, 108, 108, 111, 119, 101, 100, 72, 101, 97, 100, 101, 114, 115>>,
             keys |-> {<<97, 108, 108, 111, 119, 101, 100, 72, 101, 97, 100, 101, 114, 115>>},
             ty |-> "String", optional |-> FALSE],
            [name |-> "exposed_headers", label |-> "exposedHeaders", key |-> <<101, 120, 112, 111, 115, 101, 100, 72, 101, 97, 100, 101, 114, 115>>,
             keys |-> {<<101, 120, 112, 111, 115, 101, 100, 72, 101, 97, 100, 101, 114, 115>>},
             ty |-> "String", optional |-> FALSE],
            [name |-> "max_age_in_seconds", label |-> "maxAgeInSeconds", key |-> <<109, 97, 120, 65, 103, 101, 73, 110, 83, 101, 99, 111, 110, 100, 115>>,
             keys |-> {<<109, 97, 120, 65, 103, 101, 73, 110, 83, 101, 99, 111, 110, 100, 115>>},
             ty |-> "i32", optional |-> TRUE] >>]
    \* struct AutoscaleSettings
    \*   max_throughput: i32  keys maxThroughput
      [] name = "AutoscaleSettings" ->
        [name |-> "AutoscaleSettings",
         fields |-> <<
            [name |-> "max_throughput", label |-> "maxThroughput", key |-> <<109, 97, 120, 84, 104, 114, 111, 117, 103, 104, 112, 117, 116>>,
             keys |-> {<<109, 97, 120, 84, 104, 114, 111, 117, 103, 104, 112, 117, 116>>},
             ty |-> "i32", optional |-> FALSE] >>]
    \* struct PartitionKey
    \*   paths: Vec<String>  keys paths
    \*   kind: String  keys kind
      [] name = "PartitionKey" ->
        [name |-> "PartitionKey",
         fields |-> <<
            [name |-> "paths", label |-> "paths", key |-> <<112, 97, 116, 104, 115>>,
             keys |-> {<<112, 97, 116, 104, 115>>},
             ty |-> "Vec<String>", optional |-> FALSE],
            [name |-> "kind", label |-> "kind", key |-> <<107, 105, 110, 100>>,
             keys |-> {<<107, 105, 110, 100>>},
             ty |-> "String", optional |-> FALSE] >>]
    \* struct IndexingPolicy
    \*   automatic: Option<bool>  keys automatic
    \*   indexing_mode: Option<String>  keys indexingMode
    \*   included_paths: Option<Vec<IndexPath>>  keys includedPaths
    \*   excluded_paths: Option<Vec<IndexPath>>  keys excludedPaths
      [] name = "IndexingPolicy" ->
        [name |-> "IndexingPolicy",
         fields |-> <<
            [name |-> "automatic", label |-> "automatic", key |-> <<97, 117, 116, 111, 109, 97, 116, 105, 99>>,
             keys |-> {<<97, 117, 116, 111, 109, 97, 116, 105, 99>>},
             ty |-> "bool", optional |-> TRUE],
            [name |-> "indexing_mode", label |-> "indexingMode", key |-> <<105, 110, 100, 101, 120, 105, 110, 103, 77, 111, 100, 101>>,
             keys |-> {<<105, 110, 100, 101, 120, 105, 110, 103, 77, 111, 100, 101>>},
             ty |-> "String", optional |-> TRUE],
            [name |-> "included_paths", label |-> "includedPaths", key |-> <<105, 110, 99, 108, 117, 100, 101, 100, 80, 97, 116, 104, 115>>,
             keys |-> {<<105, 110, 99, 108, 117, 100, 101, 100, 80, 97, 116, 104, 115>>},
             ty |-> "Vec<IndexPath>", optional |-> TRUE],
            [name |-> "excluded_paths", label |-> "excludedPaths", key |-> <<101, 120, 99, 108, 117, 100, 101, 100, 80, 97, 116, 104, 115>>,
             keys |-> {<<101, 120, 99, 108, 117, 100, 101, 100, 80, 97, 116, 104, 115>>},
             ty |-> "Vec<IndexPath>", optional |-> TRUE] >>]
    \* struct IndexPath
    \*   path: String  keys path
      [] name = "IndexPath" ->
        [name |-> "IndexPath",
         fields |-> <<
            [name |-> "path", label |-> "path", key |-> <<112, 97, 116, 104>>,
             keys |-> {<<112, 97, 116, 104>>},
             ty |-> "String", optional |-> FALSE] >>]
    \* struct ConnectionString
    \*   description: String  keys description
    \*   connection_string: String  keys connectionString
      [] name = "ConnectionString" ->
        [name |-> "ConnectionString",
         fields |-> <<
            [name |-> "description", label |-> "description", key |-> <<100, 101, 115, 99, 114, 105, 112, 116, 105, 111, 110>>,
             keys |-> {<<100, 101, 115, 99, 114, 105, 112, 116, 105, 111, 110>>},
             ty |-> "String", optional |-> FALSE],
            [name |-> "connection_string", label |-> "connectionString", key |-> <<99, 111, 110, 110, 101, 99, 116, 105, 111, 110, 83, 116, 114, 105, 110, 103>>,
             keys |-> {<<99, 111, 110, 110, 101, 99, 116, 105, 111, 110, 83, 116, 114, 105, 110, 103>>},
             ty |-> "String", optional |-> FALSE] >>]

\* the Vec types of the models and of the commands' results
VecTypes ==
    {"Vec<AccountLocation>", "Vec<Capability>", "Vec<ConnectionString>",
     "Vec<CorsPolicy>", "Vec<CosmosAccount>",
     "Vec<CosmosContainer>", "Vec<CosmosDatabase>",
     "Vec<FailoverPolicy>", "Vec<IndexPath>",
     "Vec<IpRule>", "Vec<PrivateEndpointConnection>",
     "Vec<String>", "Vec<Subscription>", "Vec<Value>",
     "Vec<VirtualNetworkRule>",
     "Vec<account::ResourceGroup>"}

\* the struct a type name stands for
StructOf(name) ==
    CASE name = "Capability" -> Capability
      [] name = "Subscription" -> Subscription
      [] name = "CosmosAccount" -> CosmosAccount
      [] name = "ResourceGroup" -> ResourceGroup
      [] name = "CosmosKeys" -> CosmosKeys
      [] name = "CosmosConnectionStrings" -> CosmosConnectionStrings
      [] name = "CosmosDatabase" -> CosmosDatabase
      [] name = "CosmosContainer" -> CosmosContainer
      [] name = "ThroughputSettings" -> ThroughputSettings
      [] name = "AccountLocation" -> AccountLocation
      [] name = "account::ResourceGroup" -> AccountResourceGroup
      [] OTHER -> NestedStruct(name)

\* the element type of a Vec
ElemOf(ty) ==
    CASE ty = "Vec<AccountLocation>" -> "AccountLocation"
      [] ty = "Vec<Capability>" -> "Capability"
      [] ty = "Vec<ConnectionString>" -> "ConnectionString"
      [] ty = "Vec<CorsPolicy>" -> "CorsPolicy"
      [] ty = "Vec<CosmosAccount>" -> "CosmosAccount"
      [] ty = "Vec<CosmosContainer>" -> "CosmosContainer"
      [] ty = "Vec<CosmosDatabase>" -> "CosmosDatabase"
      [] ty = "Vec<FailoverPolicy>" -> "FailoverPolicy"
      [] ty = "Vec<IndexPath>" -> "IndexPath"
      [] ty = "Vec<IpRule>" -> "IpRule"
      [] ty = "Vec<PrivateEndpointConnection>" -> "PrivateEndpointConnection"
      [] ty = "Vec<String>" -> "String"
      [] ty = "Vec<Subscription>" -> "Subscription"
      [] ty = "Vec<Value>" -> "Value"
      [] ty = "Vec<VirtualNetworkRule>" -> "VirtualNetworkRule"
      [] ty = "Vec<account::ResourceGroup>" -> "account::ResourceGroup"

\* the value type of a HashMap with String keys
ValueOf(ty) ==
    CASE ty = "HashMap<String,String>" -> "String"
      [] ty = "HashMap<String,Value>" -> "Value"

\* what a type name is: "string", "bool", "int", "value", "vec", "map" or
\* "struct"
Kind(ty) ==
    IF ty = "String" THEN "string"
    ELSE IF ty = "bool" THEN "bool"
    ELSE IF ty \in {"i32", "i64"} THEN "int"
    ELSE IF ty = "Value" THEN "value"
    ELSE IF ty \in {"HashMap<String,String>", "HashMap<String,Value>"} THEN "map"
    ELSE IF ty \in VecTypes THEN "vec"
    ELSE "struct"

\* what the visitor of a type says it expects
Expecting(ty) ==
    CASE Kind(ty) = "string" -> "a string"
      [] Kind(ty) = "bool" -> "a boolean"
      [] Kind(ty) = "int" -> ty
      [] Kind(ty) = "value" -> "any valid JSON value"
      [] Kind(ty) = "vec" -> "a sequence"
      [] Kind(ty) = "map" -> "a map"
      [] Kind(ty) = "struct" -> "struct " \o ty

RECURSIVE DeserializeType(_, _, _)

\* Deserialize of one field's value: an Option takes null as None, and any
\* other value as its type does
DeserializeValue(f, t, i0) ==
    LET At(i) ==
            IF i > Len(t) THEN JsonError("eof", "EOF while parsing a value", i)
            ELSE IF f.optional /\ t[i] = 110
            THEN OnOk(Ident(t, i, <<110, 117, 108, 108>>),
                      LAMBDA x : [ok |-> TRUE, val |-> None, next |-> x.next])
            ELSE DeserializeType(f.ty, t, i)
    IN  At(SkipWs(t, i0))

\* Finish as it would be if an Option never seen were a missing field
Finish_OptionRequired(fields, acc, next) ==
    LET missing == {n \in DOMAIN fields : acc[n] = Unset}
        first == CHOOSE n \in missing : \A m \in missing : n <= m
    IN  IF missing # {}
        THEN JsonError("data", "missing field '" \o fields[first].label \o "'", next - 1)
        ELSE [ok |-> TRUE,
              val |-> [nm \in {fields[n].name : n \in DOMAIN fields} |->
                         acc[CHOOSE n \in DOMAIN fields : fields[n].name = nm]],
              next |-> next]

\* the end of the derived visitor: a required field never seen is an error, an
\* Option never seen is None
Finish(fields, acc, next) ==
    LET missing == {n \in DOMAIN fields : acc[n] = Unset /\ ~fields[n].optional}
        first == CHOOSE n \in missing : \A m \in missing : n <= m
    IN  IF missing # {}
        THEN JsonError("data", "missing field '" \o fields[first].label \o "'", next - 1)
        ELSE [ok |-> TRUE,
              val |-> [nm \in {fields[n].name : n \in DOMAIN fields} |->
                         LET n == CHOOSE n \in DOMAIN fields : fields[n].name = nm
                         IN  IF acc[n] = Unset THEN None ELSE acc[n]],
              next |-> next]

\* Seen as it would be if a key given again took the place of the first
Seen_Never(acc, n) == FALSE

\* the derived visitor has a value for field n already: Option::is_some
Seen(acc, n) == acc[n] # Unset

\* one step of the derived visit_map, from the character after { or after a
\* member: the end of the object, or one member; a key that names no field is
\* skipped with its value, a key that names a field already set is a
\* duplicate field
VisitMember(fields, t, i0, first, acc) ==
    LET Value(named, c) ==
            IF c > Len(t) THEN JsonError("eof", "EOF while parsing an object", c)
            ELSE IF t[c] # 58 THEN JsonError("syntax", "expected ':'", c)
            ELSE IF named = {}
            THEN OnOk(AnyValue(t, c + 1),
                      LAMBDA v : [ok |-> TRUE, end |-> FALSE, first |-> FALSE,
                                  acc |-> acc, next |-> v.next])
            ELSE OnOk(DeserializeValue(fields[CHOOSE n \in named : TRUE], t, c + 1),
                      LAMBDA v : [ok |-> TRUE, end |-> FALSE, first |-> FALSE,
                                  next |-> v.next,
                                  acc |-> [acc EXCEPT ![CHOOSE n \in named : TRUE] = v.val]])
        Member(key, named) ==
            IF named # {} /\ Seen(acc, CHOOSE n \in named : TRUE)
            THEN JsonError("data",
                     "duplicate field '" \o fields[CHOOSE n \in named : TRUE].label \o "'",
                     key.next - 1)
            ELSE Value(named, SkipWs(t, key.next))
        Key(k) ==
            IF k > Len(t) THEN JsonError("eof", "EOF while parsing a value", k)
            ELSE IF t[k] = 125 THEN JsonError("syntax", "trailing comma", k)
            ELSE IF t[k] # 34 THEN JsonError("syntax", "key must be a string", k)
            ELSE OnOk(StrBody(t, k + 1, <<>>),
                      LAMBDA key : Member(key,
                          {n \in DOMAIN fields : key.val \in fields[n].keys}))
        At(i) ==
            IF i > Len(t) THEN JsonError("eof", "EOF while parsing an object", i)
            ELSE IF t[i] = 125 THEN [ok |-> TRUE, end |-> TRUE, first |-> FALSE, acc |-> acc, next |-> i + 1]
            ELSE IF ~first /\ t[i] # 44
            THEN JsonError("syntax", "expected ',' or '}'", i)
            ELSE Key(IF first THEN i ELSE SkipWs(t, i + 1))
    IN  At(SkipWs(t, i0))

\* the loop of the derived visit_map from the state m, for at most n more
\* members, as its first half and then its second; it stops at the end of
\* the object and at an error
RECURSIVE VisitMembers(_, _, _, _)
VisitMembers(fields, t, m, n) ==
    IF ~m.ok \/ m.end THEN m
    ELSE IF n = 1 THEN VisitMember(fields, t, m.next, m.first, m.acc)
    ELSE VisitMembers(fields, t, VisitMembers(fields, t, m, n \div 2), n - (n \div 2))

\* the derived visit_map: the members of the object in text order, then the
\* end of the visitor; an object has a comma before every member but its
\* first, and its end is one step more
VisitMap(fields, t, i0, first, acc) ==
    LET After(m) == IF m.ok THEN Finish(fields, m.acc, m.next) ELSE m
    IN  After(VisitMembers(fields, t,
                           [ok |-> TRUE, end |-> FALSE, first |-> first,
                            acc |-> acc, next |-> i0],
                           2 + Cardinality({k \in i0..Len(t) : t[k] = 44})))

\* the derived visit_seq: the fields in declaration order from the elements of
\* an array, then the end of the array
RECURSIVE VisitSeq(_, _, _, _, _)
VisitSeq(fields, t, i0, n, acc) ==
    LET Element(k) ==
            IF k > Len(t) THEN JsonError("eof", "EOF while parsing a value", k)
            ELSE IF t[k] = 93 THEN JsonError("syntax", "trailing comma", k)
            ELSE OnOk(DeserializeValue(fields[n], t, k),
                      LAMBDA v : VisitSeq(fields, t, v.next, n + 1,
                                     [acc EXCEPT ![n] = v.val]))
        AfterComma(k) ==
            IF k <= Len(t) /\ t[k] = 93 THEN JsonError("syntax", "trailing comma", k)
            ELSE JsonError("syntax", "trailing characters", k)
        At(i) ==
            IF i > Len(t) THEN JsonError("eof", "EOF while parsing a list", i)
            ELSE IF n > Len(fields) THEN
                IF t[i] = 93 THEN Finish(fields, acc, i + 1)
                ELSE IF t[i] = 44 THEN AfterComma(SkipWs(t, i + 1))
                ELSE JsonError("syntax", "trailing characters", i)
            ELSE IF t[i] = 93
            THEN JsonError("data", "invalid length " \o ToString(n - 1), i)
            ELSE IF n > 1 /\ t[i] # 44
            THEN JsonError("syntax", "expected ',' or ']'", i)
            ELSE Element(IF n = 1 THEN i ELSE SkipWs(t, i + 1))
    IN  At(SkipWs(t, i0))

\* Deserializer::deserialize_struct: an object or an array
DeserializeStruct(T, t, i0) ==
    LET At(i) ==
            IF i > Len(t) THEN JsonError("eof", "EOF while parsing a value", i)
            ELSE IF t[i] = 123
            THEN VisitMap(T.fields, t, i + 1, TRUE, [n \in DOMAIN T.fields |-> Unset])
            ELSE IF t[i] = 91
            THEN VisitSeq(T.fields, t, i + 1, 1, [n \in DOMAIN T.fields |-> Unset])
            ELSE OnOk(AnyValue(t, i),
                      LAMBDA v : JsonError("data",
                          "invalid type: " \o v.what \o ", expected struct " \o T.name, i))
    IN  At(SkipWs(t, i0))

\* the value of the digits t[from..to]
RECURSIVE DigitsValue(_, _, _)
DigitsValue(t, from, to) ==
    IF from > to THEN 0
    ELSE (DigitsValue(t, from, to - 1) * 10) + (t[to] - 48)

\* an i32 or i64 from an integer of the text (the texts of this model hold
\* no integer of more than 9 digits, so every integer fits)
Integer(t, i) ==
    LET Signed(d, r) ==
            [ok |-> TRUE, next |-> r.next,
             val |-> Num(IF t[i] = 45 THEN 0 - DigitsValue(t, d, r.next - 1)
                         ELSE DigitsValue(t, d, r.next - 1))]
    IN  OnOk(Number(t, i), LAMBDA r : Signed(IF t[i] = 45 THEN i + 1 ELSE i, r))

\* the elements of a Vec, from the character after [ or after an element
RECURSIVE VecElements(_, _, _, _, _)
VecElements(elem, t, i0, first, acc) ==
    LET Element(k) ==
            IF k > Len(t) THEN JsonError("eof", "EOF while parsing a value", k)
            ELSE IF t[k] = 93 /\ ~first THEN JsonError("syntax", "trailing comma", k)
            ELSE OnOk(DeserializeType(elem, t, k),
                      LAMBDA v : VecElements(elem, t, v.next, FALSE, Append(acc, v.val)))
        At(i) ==
            IF i > Len(t) THEN JsonError("eof", "EOF while parsing a list", i)
            ELSE IF t[i] = 93 THEN [ok |-> TRUE, val |-> Vec(acc), next |-> i + 1]
            ELSE IF ~first /\ t[i] # 44
            THEN JsonError("syntax", "expected ',' or ']'", i)
            ELSE Element(IF first THEN i ELSE SkipWs(t, i + 1))
    IN  At(SkipWs(t, i0))

\* the entries of a HashMap, from the character after { or after a value; a
\* key seen again replaces the entry it had
RECURSIVE MapEntries(_, _, _, _, _)
MapEntries(vty, t, i0, first, acc) ==
    LET Entry(key, c) ==
            IF c > Len(t) THEN JsonError("eof", "EOF while parsing an object", c)
            ELSE IF t[c] # 58 THEN JsonError("syntax", "expected ':'", c)
            ELSE OnOk(DeserializeType(vty, t, c + 1),
                      LAMBDA v : MapEntries(vty, t, v.next, FALSE,
                                     {e \in acc : e[1] # key.val} \cup {<<key.val, v.val>>}))
        Key(k) ==
            IF k > Len(t) THEN JsonError("eof", "EOF while parsing a value", k)
            ELSE IF t[k] = 125 THEN JsonError("syntax", "trailing comma", k)
            ELSE IF t[k] # 34 THEN JsonError("syntax", "key must be a string", k)
            ELSE OnOk(StrBody(t, k + 1, <<>>), LAMBDA key : Entry(key, SkipWs(t, key.next)))
        At(i) ==
            IF i > Len(t) THEN JsonError("eof", "EOF while parsing an object", i)
            ELSE IF t[i] = 125 THEN [ok |-> TRUE, val |-> Map(acc), next |-> i + 1]
            ELSE IF ~first /\ t[i] # 44
            THEN JsonError("syntax", "expected ',' or '}'", i)
            ELSE Key(IF first THEN i ELSE SkipWs(t, i + 1))
    IN  At(SkipWs(t, i0))

\* the text t without the whitespace outside its strings
Compact(t) ==
    LET quotes == {k \in 1..Len(t) : t[k] = 34 /\ BackslashRun(t, 1, k) % 2 = 0}
        Quoted(k) == Cardinality({q \in quotes : q < k}) % 2 = 1
    IN  Flat([k \in 1..Len(t) |-> IF IsWs(t[k]) /\ ~Quoted(k) THEN <<>> ELSE <<t[k]>>],
             1, Len(t))

\* Deserialize of a value of the type named ty: a value of another class is
\* an invalid type
DeserializeType(ty, t, i0) ==
    LET Is(val, r) == OnOk(r, LAMBDA x : [ok |-> TRUE, val |-> val, next |-> x.next])
        Invalid(i) ==
            IF t[i] = 123
            THEN JsonError("data", "invalid type: map, expected " \o Expecting(ty), i)
            ELSE IF t[i] = 91
            THEN JsonError("data", "invalid type: sequence, expected " \o Expecting(ty), i)
            ELSE OnOk(AnyValue(t, i),
                      LAMBDA v : JsonError("data",
                          "invalid type: " \o v.what \o ", expected " \o Expecting(ty), i))
        Of(kind, i) ==
            IF i > Len(t) THEN JsonError("eof", "EOF while parsing a value", i)
            ELSE IF kind = "struct" THEN DeserializeStruct(StructOf(ty), t, i)
            ELSE IF kind = "value"
            THEN OnOk(AnyValue(t, i),
                      LAMBDA v : [ok |-> TRUE,
                                  val |-> JsonValue(Compact(SubSeq(t, i, v.next - 1))),
                                  next |-> v.next])
            ELSE IF kind = "string" /\ t[i] = 34
            THEN OnOk(StrBody(t, i + 1, <<>>),
                      LAMBDA x : [ok |-> TRUE, val |-> Str(x.val), next |-> x.next])
            ELSE IF kind = "bool" /\ t[i] = 116
            THEN Is(Bool(TRUE), Ident(t, i, <<116, 114, 117, 101>>))
            ELSE IF kind = "bool" /\ t[i] = 102
            THEN Is(Bool(FALSE), Ident(t, i, <<102, 97, 108, 115, 101>>))
            ELSE IF kind = "int" /\ (t[i] = 45 \/ IsDigit(t[i])) THEN Integer(t, i)
            ELSE IF kind = "vec" /\ t[i] = 91
            THEN VecElements(ElemOf(ty), t, i + 1, TRUE, <<>>)
            ELSE IF kind = "map" /\ t[i] = 123
            THEN MapEntries(ValueOf(ty), t, i + 1, TRUE, {})
            ELSE Invalid(i)
    IN  Of(Kind(ty), SkipWs(t, i0))

\* serde_json::from_str::<T>: one value, then nothing but whitespace
from_str(T, t) ==
    LET End(r, e) ==
            IF e <= Len(t) THEN JsonError("syntax", "trailing characters", e)
            ELSE [ok |-> TRUE, val |-> r.val]
    IN  OnOk(DeserializeType(T.name, t, 1), LAMBDA r : End(r, SkipWs(t, r.next)))

---------------------------------------------------------------------------
(* The derived Serialize and serde_json::to_string.  A struct is written    *)
(* as an object of all its fields in declaration order, each under its key  *)
(* (never an alias), and None is written as null.                           *)

\* the decimal digits of a natural number
RECURSIVE Decimal(_)
Decimal(n) == IF n < 10 THEN <<48 + n>> ELSE Decimal(n \div 10) \o <<48 + (n % 10)>>

Hex(d) == IF d < 10 THEN 48 + d ELSE 87 + d

\* format_escaped_str_contents as it would be if no character were escaped
Escaped_Raw(s) == s

\* format_escaped_str_contents: the characters of a string as JSON writes them
Escaped(s) ==
    LET Char(c) ==
            IF c = 34 THEN <<92, 34>>
            ELSE IF c = 92 THEN <<92, 92>>
            ELSE IF c = 8 THEN <<92, 98>>
            ELSE IF c = 12 THEN <<92, 102>>
            ELSE IF c = 10 THEN <<92, 110>>
            ELSE IF c = 13 THEN <<92, 114>>
            ELSE IF c = 9 THEN <<92, 116>>
            ELSE IF c < 32 THEN <<92, 117, 48, 48, Hex(c \div 16), Hex(c % 16)>>
            ELSE <<c>>
    IN  Flat([i \in DOMAIN s |-> Char(s[i])], 1, Len(s))

\* the texts of a sequence with a comma between them
Joined(texts) ==
    Flat([k \in 1..((2 * Len(texts)) - 1) |->
             IF k % 2 = 1 THEN texts[(k + 1) \div 2] ELSE <<44>>],
         1, (2 * Len(texts)) - 1)

\* the entries of a HashMap in the order its iterator gives them: the order
\* is the hasher's, and the model has it as one order or its reverse
Iterated(m, reversed) ==
    LET n == Cardinality(m)
        order == CHOOSE f \in [1..n -> m] : \A e \in m : \E i \in 1..n : f[i] = e
    IN  [i \in 1..n |-> IF reversed THEN order[n + 1 - i] ELSE order[i]]

\* Serialize of a value of the type named ty
RECURSIVE SerializeType(_, _, _)
SerializeType(ty, v, reversed) ==
    LET Quoted(str) == <<34>> \o Escaped(str) \o <<34>>
        Field(f) == Quoted(f.key) \o <<58>> \o SerializeType(f.ty, v[f.name], reversed)
        Entry(e) == Quoted(e[1]) \o <<58>> \o SerializeType(ValueOf(ty), e[2], reversed)
        Struct(fields) ==
            <<123>> \o Joined([i \in DOMAIN fields |-> Field(fields[i])]) \o <<125>>
        Entries(es) ==
            <<123>> \o Joined([i \in DOMAIN es |-> Entry(es[i])]) \o <<125>>
        Of(kind) ==
            IF v = None THEN <<110, 117, 108, 108>>
            ELSE IF kind = "string" THEN Quoted(v.s)
            ELSE IF kind = "bool"
            THEN (IF v.b THEN <<116, 114, 117, 101>> ELSE <<102, 97, 108, 115, 101>>)
            ELSE IF kind = "int"
            THEN (IF v.n < 0 THEN <<45>> \o Decimal(0 - v.n) ELSE Decimal(v.n))
            ELSE IF kind = "value" THEN v.text
            ELSE IF kind = "vec"
            THEN <<91>> \o Joined([i \in DOMAIN v.v |->
                                      SerializeType(ElemOf(ty), v.v[i], reversed)]) \o <<93>>
            ELSE IF kind = "map" THEN Entries(Iterated(v.m, reversed))
            ELSE Struct(StructOf(ty).fields)
    IN  Of(Kind(ty))

\* serde_json::to_string(&value) for a value of type T
to_string(T, value, reversed) == SerializeType(T.name, value, reversed)

---------------------------------------------------------------------------
(* AzCommandBuilder.  self is the builder's args; an Option<&str> is <<>>   *)
(* for None and <<v>> for Some(v).                                          *)

new == <<>>

subcommand(self, cmd) == Append(self, cmd)

\* param as it would be if a flag already present were not appended again
param_Dedup(self, p, value) ==
    IF \E i \in DOMAIN self : self[i] = p THEN self ELSE Append(Append(self, p), value)

param(self, p, value) == Append(Append(self, p), value)

\* optional_param as it would be if None were passed on as an empty value
optional_param_EmptyValue(self, p, value) ==
    IF value # <<>> THEN Append(Append(self, p), value[1]) ELSE Append(Append(self, p), "")

optional_param(self, p, value) ==
    IF value # <<>> THEN Append(Append(self, p), value[1]) ELSE self

flag(self, f) == Append(self, f)

\* conditional_flag as it would be if false were written out, as
\* format_bool_param writes a boolean
conditional_flag_Explicit(self, f, condition) ==
    IF condition THEN Append(self, f) ELSE Append(Append(self, f), "false")

conditional_flag(self, f, condition) ==
    IF condition THEN Append(self, f) ELSE self

\* subscription as it would be if the pair were put before the subcommands
subscription_First(self, sub) ==
    IF sub # <<>> THEN <<"--subscription", sub[1]>> \o self ELSE self

subscription(self, sub) ==
    IF sub # <<>> THEN Append(Append(self, "--subscription"), sub[1]) ELSE self

build(self) == self

---------------------------------------------------------------------------
(* commands/account.rs and commands/cosmos.rs: each command gives the       *)
(* tokens its builder holds when it is executed, how it is executed         *)
(* (execute or execute_raw) and the type T its output is decoded into.      *)
(* An Option is <<>> for None and <<v>> for Some(v).                        *)

\* if let Some(v) = value { builder = builder.param(p, v) }
IfSomeParam(self, p, value) ==
    IF value # <<>> THEN param(self, p, value[1]) ELSE self

\* if let Some(n) = value { builder = builder.param(p, &n.to_string()) }
IfSomeNumber(self, p, value) ==
    IF value # <<>> THEN param(self, p, ToString(value[1])) ELSE self

\* IfSomeConditionalFlag as it would be if Some(b) were written as "f=b", the
\* way format_bool_param writes it
IfSomeConditionalFlag_FormatBool(self, f, value) ==
    IF value # <<>>
    THEN Append(self, f \o "=" \o (IF value[1] THEN "true" ELSE "false"))
    ELSE self

\* if let Some(b) = value { builder = builder.conditional_flag(f, b) }
IfSomeConditionalFlag(self, f, value) ==
    IF value # <<>> THEN conditional_flag(self, f, value[1]) ELSE self

\* for v in values { builder = builder.param(p, v) }
RECURSIVE ParamEach(_, _, _)
ParamEach(self, p, values) ==
    IF values = <<>> THEN self
    ELSE ParamEach(param(self, p, Head(values)), p, Tail(values))

\* if let Some(values) = value { for v in values { ... } }
IfSomeParamEach(self, p, value) ==
    IF value # <<>> THEN ParamEach(self, p, value[1]) ELSE self

\* for (location, priority) in policies {
\*     builder = builder.param(p, &format!("{}={}", location, priority)) }
RECURSIVE ParamEachPolicy(_, _, _)
ParamEachPolicy(self, p, policies) ==
    IF policies = <<>> THEN self
    ELSE ParamEachPolicy(
             param(self, p, Head(policies)[1] \o "=" \o ToString(Head(policies)[2])),
             p, Tail(policies))

AccountCommands_list_subscriptions ==
    [args |-> subcommand(subcommand(new, "account"), "list"),
     run |-> "execute", T |-> "Vec<Subscription>"]

AccountCommands_show_subscription(subscription_id) ==
    [args |-> subscription(subcommand(subcommand(new, "account"), "show"),
              subscription_id),
     run |-> "execute", T |-> "Subscription"]

AccountCommands_set_subscription(subscription_id) ==
    [args |-> param(subcommand(subcommand(new, "account"), "set"),
              "--subscription", subscription_id),
     run |-> "execute_raw", T |-> "String"]

AccountCommands_list_locations(subscription_id) ==
    [args |-> subscription(subcommand(subcommand(new, "account"),
              "list-locations"), subscription_id),
     run |-> "execute", T |-> "Vec<Value>"]

AccountCommands_list_resource_groups(subscription_id) ==
    [args |-> subscription(subcommand(subcommand(new, "group"), "list"),
              subscription_id),
     run |-> "execute", T |-> "Vec<account::ResourceGroup>"]

AccountCommands_show_resource_group(name, subscription_id) ==
    [args |-> subscription(param(subcommand(subcommand(new, "group"),
              "show"), "--name", name), subscription_id),
     run |-> "execute", T |-> "account::ResourceGroup"]

AccountCommands_create_resource_group(name, location, subscription_id) ==
    [args |-> subscription(param(param(subcommand(subcommand(new, "group"),
              "create"), "--name", name), "--location", location),
              subscription_id),
     run |-> "execute", T |-> "account::ResourceGroup"]

AccountCommands_delete_resource_group(name, subscription_id) ==
    [args |-> subscription(flag(param(subcommand(subcommand(new, "group"),
              "delete"), "--name", name), "--yes"), subscription_id),
     run |-> "execute_raw", T |-> "String"]

CosmosCommands_list_accounts(resource_group, subscription_id) ==
    [args |-> IfSomeParam(subscription(subcommand(subcommand(new,
              "cosmosdb"), "list"), subscription_id), "--resource-group",
              resource_group),
     run |-> "execute", T |-> "Vec<CosmosAccount>"]

CosmosCommands_show_account(name, resource_group, subscription_id) ==
    [args |-> subscription(param(param(subcommand(subcommand(new,
              "cosmosdb"), "show"), "--name", name), "--resource-group",
              resource_group), subscription_id),
     run |-> "execute", T |-> "CosmosAccount"]

CosmosCommands_create_account(name, resource_group, location, kind, capabilities, enable_automatic_failover, enable_multiple_write_locations, subscription_id) ==
    [args |-> IfSomeConditionalFlag(IfSomeConditionalFlag(IfSomeParamEach(IfSomeParam(subscription(param(param(param(subcommand(subcommand(new,
              "cosmosdb"), "create"), "--name", name), "--resource-group",
              resource_group), "--location", location), subscription_id),
              "--kind", kind), "--capabilities", capabilities),
              "--enable-automatic-failover", enable_automatic_failover),
              "--enable-multiple-write-locations",
              enable_multiple_write_locations),
     run |-> "execute", T |-> "CosmosAccount"]

CosmosCommands_update_account(name, resource_group, enable_automatic_failover, enable_multiple_write_locations, subscription_id) ==
    [args |-> IfSomeConditionalFlag(IfSomeConditionalFlag(subscription(param(param(subcommand(subcommand(new,
              "cosmosdb"), "update"), "--name", name), "--resource-group",
              resource_group), subscription_id),
              "--enable-automatic-failover", enable_automatic_failover),
              "--enable-multiple-write-locations",
              enable_multiple_write_locations),
     run |-> "execute", T |-> "CosmosAccount"]

CosmosCommands_delete_account(name, resource_group, subscription_id) ==
    [args |-> subscription(flag(param(param(subcommand(subcommand(new,
              "cosmosdb"), "delete"), "--name", name), "--resource-group",
              resource_group), "--yes"), subscription_id),
     run |-> "execute_raw", T |-> "String"]

CosmosCommands_list_keys(account_name, resource_group, subscription_id) ==
    [args |-> subscription(param(param(subcommand(subcommand(subcommand(new,
              "cosmosdb"), "keys"), "list"), "--name", account_name),
              "--resource-group", resource_group), subscription_id),
     run |-> "execute", T |-> "CosmosKeys"]

CosmosCommands_list_read_only_keys(account_name, resource_group, subscription_id) ==
    [args |-> subscription(param(param(param(subcommand(subcommand(subcommand(new,
              "cosmosdb"), "keys"), "list"), "--name", account_name),
              "--resource-group", resource_group), "--type",
              "read-only-keys"), subscription_id),
     run |-> "execute", T |-> "CosmosKeys"]

CosmosCommands_regenerate_key(account_name, resource_group, key_kind, subscription_id) ==
    [args |-> subscription(param(param(param(subcommand(subcommand(subcommand(new,
              "cosmosdb"), "keys"), "regenerate"), "--name", account_name),
              "--resource-group", resource_group), "--key-kind", key_kind),
              subscription_id),
     run |-> "execute_raw", T |-> "String"]

CosmosCommands_list_connection_strings(account_name, resource_group, subscription_id) ==
    [args |-> subscription(param(param(param(subcommand(subcommand(subcommand(new,
              "cosmosdb"), "keys"), "list"), "--name", account_name),
              "--resource-group", resource_group), "--type",
              "connection-strings"), subscription_id),
     run |-> "execute", T |-> "CosmosConnectionStrings"]

CosmosCommands_list_sql_databases(account_name, resource_group, subscription_id) ==
    [args |-> subscription(param(param(subcommand(subcommand(subcommand(subcommand(new,
              "cosmosdb"), "sql"), "database"), "list"), "--account-name",
              account_name), "--resource-group", resource_group),
              subscription_id),
     run |-> "execute", T |-> "Vec<CosmosDatabase>"]

CosmosCommands_show_sql_database(account_name, resource_group, database_name, subscription_id) ==
    [args |-> subscription(param(param(param(subcommand(subcommand(subcommand(subcommand(new,
              "cosmosdb"), "sql"), "database"), "show"), "--account-name",
              account_name), "--resource-group", resource_group), "--name",
              database_name), subscription_id),
     run |-> "execute", T |-> "CosmosDatabase"]

CosmosCommands_create_sql_database(account_name, resource_group, database_name, throughput, max_throughput, subscription_id) ==
    [args |-> IfSomeNumber(IfSomeNumber(subscription(param(param(param(subcommand(subcommand(subcommand(subcommand(new,
              "cosmosdb"), "sql"), "database"), "create"), "--account-name",
              account_name), "--resource-group", resource_group), "--name",
              database_name), subscription_id), "--throughput", throughput),
              "--max-throughput", max_throughput),
     run |-> "execute", T |-> "CosmosDatabase"]

CosmosCommands_delete_sql_database(account_name, resource_group, database_name, subscription_id) ==
    [args |-> subscription(flag(param(param(param(subcommand(subcommand(subcommand(subcommand(new,
              "cosmosdb"), "sql"), "database"), "delete"), "--account-name",
              account_name), "--resource-group", resource_group), "--name",
              database_name), "--yes"), subscription_id),
     run |-> "execute_raw", T |-> "String"]

CosmosCommands_list_sql_containers(account_name, resource_group, database_name) ==
    [args |-> param(param(param(subcommand(subcommand(subcommand(subcommand(new,
              "cosmosdb"), "sql"), "container"), "list"), "--account-name",
              account_name), "--resource-group", resource_group),
              "--database-name", database_name),
     run |-> "execute", T |-> "Vec<CosmosContainer>"]

CosmosCommands_show_sql_container(account_name, resource_group, database_name, container_name) ==
    [args |-> param(param(param(param(subcommand(subcommand(subcommand(subcommand(new,
              "cosmosdb"), "sql"), "container"), "show"), "--account-name",
              account_name), "--resource-group", resource_group),
              "--database-name", database_name), "--name", container_name),
     run |-> "execute", T |-> "CosmosContainer"]

CosmosCommands_create_sql_container(account_name, resource_group, database_name, container_name, partition_key_path, throughput, max_throughput) ==
    [args |-> IfSomeNumber(IfSomeNumber(param(param(param(param(param(subcommand(subcommand(subcommand(subcommand(new,
              "cosmosdb"), "sql"), "container"), "create"), "--account-name",
              account_name), "--resource-group", resource_group),
              "--database-name", database_name), "--name", container_name),
              "--partition-key-path", partition_key_path), "--throughput",
              throughput), "--max-throughput", max_throughput),
     run |-> "execute", T |-> "CosmosContainer"]

\* delete_sql_container as it would be if it left the confirmation to az
CosmosCommands_delete_sql_container_NoYes(account_name, resource_group, database_name, container_name) ==
    [args |-> param(param(param(param(subcommand(subcommand(subcommand(subcommand(new,
              "cosmosdb"), "sql"), "container"), "delete"), "--account-name",
              account_name), "--resource-group", resource_group),
              "--database-name", database_name), "--name", container_name),
     run |-> "execute_raw", T |-> "String"]

CosmosCommands_delete_sql_container(account_name, resource_group, database_name, container_name) ==
    [args |-> flag(param(param(param(param(subcommand(subcommand(subcommand(subcommand(new,
              "cosmosdb"), "sql"), "container"), "delete"), "--account-name",
              account_name), "--resource-group", resource_group),
              "--database-name", database_name), "--name", container_name),
              "--yes"),
     run |-> "execute_raw", T |-> "String"]

CosmosCommands_get_database_throughput(account_name, resource_group, database_name) ==
    [args |-> param(param(param(subcommand(subcommand(subcommand(subcommand(subcommand(new,
              "cosmosdb"), "sql"), "database"), "throughput"), "show"),
              "--account-name", account_name), "--resource-group",
              resource_group), "--name", database_name),
     run |-> "execute", T |-> "ThroughputSettings"]

CosmosCommands_update_database_throughput(account_name, resource_group, database_name, throughput, max_throughput) ==
    [args |-> IfSomeNumber(IfSomeNumber(param(param(param(subcommand(subcommand(subcommand(subcommand(subcommand(new,
              "cosmosdb"), "sql"), "database"), "throughput"), "update"),
              "--account-name", account_name), "--resource-group",
              resource_group), "--name", database_name), "--throughput",
              throughput), "--max-throughput", max_throughput),
     run |-> "execute", T |-> "ThroughputSettings"]

CosmosCommands_get_container_throughput(account_name, resource_group, database_name, container_name) ==
    [args |-> param(param(param(param(subcommand(subcommand(subcommand(subcommand(subcommand(new,
              "cosmosdb"), "sql"), "container"), "throughput"), "show"),
              "--account-name", account_name), "--resource-group",
              resource_group), "--database-name", database_name), "--name",
              container_name),
     run |-> "execute", T |-> "ThroughputSettings"]

CosmosCommands_update_container_throughput(account_name, resource_group, database_name, container_name, throughput, max_throughput) ==
    [args |-> IfSomeNumber(IfSomeNumber(param(param(param(param(subcommand(subcommand(subcommand(subcommand(subcommand(new,
              "cosmosdb"), "sql"), "container"), "throughput"), "update"),
              "--account-name", account_name), "--resource-group",
              resource_group), "--database-name", database_name), "--name",
              container_name), "--throughput", throughput),
              "--max-throughput", max_throughput),
     run |-> "execute", T |-> "ThroughputSettings"]

CosmosCommands_list_mongodb_databases(account_name, resource_group) ==
    [args |-> param(param(subcommand(subcommand(subcommand(subcommand(new,
              "cosmosdb"), "mongodb"), "database"), "list"),
              "--account-name", account_name), "--resource-group",
              resource_group),
     run |-> "execute", T |-> "Vec<CosmosDatabase>"]

CosmosCommands_list_mongodb_collections(account_name, resource_group, database_name) ==
    [args |-> param(param(param(subcommand(subcommand(subcommand(subcommand(new,
              "cosmosdb"), "mongodb"), "collection"), "list"),
              "--account-name", account_name), "--resource-group",
              resource_group), "--database-name", database_name),
     run |-> "execute", T |-> "Vec<CosmosContainer>"]

CosmosCommands_list_account_locations(account_name, resource_group) ==
    [args |-> param(param(subcommand(subcommand(subcommand(new, "cosmosdb"),
              "locations"), "list"), "--name", account_name),
              "--resource-group", resource_group),
     run |-> "execute", T |-> "Vec<AccountLocation>"]

CosmosCommands_failover_priority_change(account_name, resource_group, failover_policies) ==
    [args |-> ParamEachPolicy(param(param(subcommand(subcommand(new,
              "cosmosdb"), "failover-priority-change"), "--name",
              account_name), "--resource-group", resource_group),
              "--failover-policies", failover_policies),
     run |-> "execute_raw", T |-> "String"]

---------------------------------------------------------------------------
(* The child process and std::process::Command.                            *)

\* ExitStatus: exited with a code, or ended by a signal (no code)
Exited(code) == [exited |-> TRUE, code |-> code]
Signaled(sig) == [exited |-> FALSE, code |-> sig]

\* ExitStatus::success
success(status) == status.exited /\ status.code = 0

\* code_or_minus_one as it would be with unwrap_or_default
code_or_minus_one_Default(status) == IF status.exited THEN status.code ELSE 0

\* ExitStatus::code().unwrap_or(-1)
code_or_minus_one(status) == IF status.exited THEN status.code ELSE -1

\* RawCommand as it would be if the output format were left to the caller
RawCommand_NoOutputFlag(a) ==
    [program |-> "az", args |-> a, stdout |-> "piped", stderr |-> "piped"]

\* Command::new("az").args(args).arg("--output").arg("json") with both pipes
RawCommand(a) ==
    [program |-> "az", args |-> a \o <<"--output", "json">>,
     stdout |-> "piped", stderr |-> "piped"]

\* Command::new("az").arg("--version") with stdout and stderr to null
VersionCommand ==
    [program |-> "az", args |-> <<"--version">>, stdout |-> "null", stderr |-> "null"]

\* what Command::output() gives for a child that ran: a stream that is not
\* piped is captured empty
Captured(cmd, ch) ==
    [ok |-> TRUE, status |-> ch.status,
     stdout |-> IF cmd.stdout = "piped" THEN ch.stdout ELSE <<>>,
     stderr |-> IF cmd.stderr = "piped" THEN ch.stderr ELSE <<>>]

\* what Command::output() gives when the process cannot be spawned
SpawnFailed(e) == [ok |-> FALSE, error |-> e]

---------------------------------------------------------------------------
(* error.rs and the executor of utils.rs.  output is what Command::output() *)
(* gave.                                                                    *)

\* from_command_output as it would be if every outcome held the exit status
from_command_output_WithStatus(command, output) ==
    LET With(stderr) ==
            IF ~is_empty(stderr)
            THEN [kind |-> "CliError", command |-> command, stderr |-> stderr,
                  status |-> code_or_minus_one(output.status)]
            ELSE [kind |-> "CliExecution", command |-> command,
                  error |-> "Command failed with exit code: "
                                \o ToString(code_or_minus_one(output.status)),
                  status |-> code_or_minus_one(output.status)]
    IN  With(FromUtf8Lossy(output.stderr))

\* from_command_output as it would be if stderr were dropped
from_command_output_NoStderr(command, output) ==
    [kind |-> "CliExecution", command |-> command,
     error |-> "Command failed with exit code: "
                   \o ToString(code_or_minus_one(output.status))]

\* from_command_output as it would be if it told a missing login apart
from_command_output_Login(command, output) ==
    LET With(stderr) ==
            IF contains(stderr, AzLogin) THEN [kind |-> "Authentication"]
            ELSE IF ~is_empty(stderr)
            THEN [kind |-> "CliError", command |-> command, stderr |-> stderr]
            ELSE [kind |-> "CliExecution", command |-> command,
                  error |-> "Command failed with exit code: "
                                \o ToString(code_or_minus_one(output.status))]
    IN  With(FromUtf8Lossy(output.stderr))

from_command_output(command, output) ==
    LET With(stderr) ==
            IF ~is_empty(stderr)
            THEN [kind |-> "CliError", command |-> command, stderr |-> stderr]
            ELSE [kind |-> "CliExecution", command |-> command,
                  error |-> "Command failed with exit code: "
                                \o ToString(code_or_minus_one(output.status))]
    IN  With(FromUtf8Lossy(output.stderr))

\* execute_az_command_raw as it would be if it trimmed the end of stdout
execute_az_command_raw_Trim(a, output) ==
    LET Trimmed(text) ==
            IF text # <<>> /\ IsWs(text[Len(text)])
            THEN SubSeq(text, 1, Len(text) - 1) ELSE text
    IN  IF ~output.ok THEN [kind |-> "Io", error |-> output.error]
        ELSE IF ~success(output.status)
        THEN from_command_output(CommandString(a), output)
        ELSE [kind |-> "Ok", value |-> Trimmed(FromUtf8Lossy(output.stdout))]

execute_az_command_raw(a, output) ==
    IF ~output.ok THEN [kind |-> "Io", error |-> output.error]
    ELSE IF ~success(output.status)
    THEN from_command_output(CommandString(a), output)
    ELSE [kind |-> "Ok", value |-> FromUtf8Lossy(output.stdout)]

\* execute_az_command as it would be without its check for an empty output
execute_az_command_NoEmptyCheck(a, T, output) ==
    LET Parsed(parsed) ==
            [ret |-> IF parsed.ok THEN [kind |-> "Ok", value |-> parsed.val]
                     ELSE [kind |-> "JsonParse", diag |-> parsed.diag],
             decodes |-> 1]
        Output(raw) ==
            IF raw.kind # "Ok" THEN [ret |-> raw, decodes |-> 0]
            ELSE Parsed(from_str(T, raw.value))
    IN  Output(execute_az_command_raw(a, output))

\* execute_az_command as it would be if a decode failure were reported as an
\* execution failure
execute_az_command_ParseAsExecution(a, T, output) ==
    LET Parsed(parsed) ==
            [ret |-> IF parsed.ok THEN [kind |-> "Ok", value |-> parsed.val]
                     ELSE [kind |-> "CliExecution", command |-> CommandString(a),
                           error |-> "Invalid output"],
             decodes |-> 1]
        Output(raw) ==
            IF raw.kind # "Ok" THEN [ret |-> raw, decodes |-> 0]
            ELSE IF is_empty(raw.value)
            THEN [ret |-> [kind |-> "CliExecution", command |-> CommandString(a),
                           error |-> "Empty output"],
                  decodes |-> 0]
            ELSE Parsed(from_str(T, raw.value))
    IN  Output(execute_az_command_raw(a, output))

\* execute_az_command as it would be if it decoded stdout whatever the exit
\* status
execute_az_command_DecodeOnFailure(a, T, output) ==
    LET Parsed(parsed, raw) ==
            [ret |-> IF parsed.ok THEN [kind |-> "Ok", value |-> parsed.val]
                     ELSE IF raw.kind # "Ok" THEN raw
                     ELSE [kind |-> "JsonParse", diag |-> parsed.diag],
             decodes |-> 1]
        Output(raw) ==
            IF ~output.ok THEN [ret |-> raw, decodes |-> 0]
            ELSE IF is_empty(FromUtf8Lossy(output.stdout))
            THEN [ret |-> IF raw.kind # "Ok" THEN raw
                          ELSE [kind |-> "CliExecution", command |-> CommandString(a),
                                error |-> "Empty output"],
                  decodes |-> 0]
            ELSE Parsed(from_str(T, FromUtf8Lossy(output.stdout)), raw)
    IN  Output(execute_az_command_raw(a, output))

\* gives the value returned and the number of from_str calls made
execute_az_command(a, T, output) ==
    LET Parsed(parsed) ==
            [ret |-> IF parsed.ok THEN [kind |-> "Ok", value |-> parsed.val]
                     ELSE [kind |-> "JsonParse", diag |-> parsed.diag],
             decodes |-> 1]
        Output(raw) ==
            IF raw.kind # "Ok" THEN [ret |-> raw, decodes |-> 0]
            ELSE IF is_empty(raw.value)
            THEN [ret |-> [kind |-> "CliExecution", command |-> CommandString(a),
                           error |-> "Empty output"],
                  decodes |-> 0]
            ELSE Parsed(from_str(T, raw.value))
    IN  Output(execute_az_command_raw(a, output))

\* check_az_cli as it would be if any child that ran counted as available
check_az_cli_SpawnedIsOk(output) ==
    IF output.ok THEN [kind |-> "Ok"] ELSE [kind |-> "CliNotFound"]

check_az_cli(output) ==
    IF output.ok
    THEN IF success(output.status) THEN [kind |-> "Ok"] ELSE [kind |-> "CliNotFound"]
    ELSE [kind |-> "CliNotFound"]

\* the args check_authentication passes to execute_az_command_raw
AccountShow == <<"account", "show">>

\* check_authentication as it would be if stderr had to be "az login" itself
check_authentication_Exact(output) ==
    LET Match(r) ==
            IF r.kind = "Ok" THEN [kind |-> "Ok"]
            ELSE IF r.kind = "CliError" /\ r.stderr = AzLogin
            THEN [kind |-> "Authentication"]
            ELSE r
    IN  Match(execute_az_command_raw(AccountShow, output))

check_authentication(output) ==
    LET Match(r) ==
            IF r.kind = "Ok" THEN [kind |-> "Ok"]
            ELSE IF r.kind = "CliError" /\ contains(r.stderr, AzLogin)
            THEN [kind |-> "Authentication"]
            ELSE r
    IN  Match(execute_az_command_raw(AccountShow, output))

---------------------------------------------------------------------------
(* client.rs: AzureClient.  self is [auto_check_auth, subscription_id].     *)

\* AzureClient::new()
AzureClient_new == [auto_check_auth |-> TRUE, subscription_id |-> <<>>]

\* AzureClient::new_no_auth_check()
AzureClient_new_no_auth_check == [auto_check_auth |-> FALSE, subscription_id |-> <<>>]

\* AzureClient::with_subscription(subscription_id)
AzureClient_with_subscription(subscription_id) ==
    [auto_check_auth |-> TRUE, subscription_id |-> <<subscription_id>>]

\* AzureClient::default()
AzureClient_default == [auto_check_auth |-> TRUE, subscription_id |-> <<>>]

use_subscription(self, subscription_id) ==
    [self EXCEPT !.subscription_id = <<subscription_id>>]

\* a clear_subscription that leaves the subscription in place
clear_subscription_Keep(self) == self

clear_subscription(self) == [self EXCEPT !.subscription_id = <<>>]

get_subscription(self) == self.subscription_id

\* one function of utils.rs an AzureClient method awaits: its name, the
\* tokens it is given and the type it decodes into
Stage(e, a, T) == [entry |-> e, args |-> a, shape |-> T]

\* verify_setup as it would be if it checked the authentication of every
\* client
verify_setup_AlwaysAuth(self) ==
    <<Stage("check_az_cli", <<>>, "none"),
      Stage("check_authentication", AccountShow, "none")>>

\* verify_setup: check_az_cli()?, then check_authentication()? if
\* auto_check_auth
verify_setup(self) ==
    <<Stage("check_az_cli", <<>>, "none")>>
        \o IF self.auto_check_auth
           THEN <<Stage("check_authentication", AccountShow, "none")>>
           ELSE <<>>

\* the command a method of AzureClient runs once the setup is verified; p is
\* the call: the method's name and its arguments
ClientCommand(self, p) ==
    CASE p.method = "list_subscriptions" ->
             AccountCommands_list_subscriptions
      [] p.method = "show_current_subscription" ->
             AccountCommands_show_subscription(self.subscription_id)
      [] p.method = "set_subscription" ->
             AccountCommands_set_subscription(p.subscription_id)
      [] p.method = "list_locations" ->
             AccountCommands_list_locations(self.subscription_id)
      [] p.method = "list_resource_groups" ->
             AccountCommands_list_resource_groups(
                 IF p.subscription_id # <<>> THEN p.subscription_id
                 ELSE self.subscription_id)
      [] p.method = "show_resource_group" ->
             AccountCommands_show_resource_group(p.name,
                 self.subscription_id)
      [] p.method = "create_resource_group" ->
             AccountCommands_create_resource_group(p.name, p.location,
                 self.subscription_id)
      [] p.method = "delete_resource_group" ->
             AccountCommands_delete_resource_group(p.name,
                 self.subscription_id)
      [] p.method = "list_cosmos_accounts" ->
             CosmosCommands_list_accounts(p.resource_group,
                 self.subscription_id)
      [] p.method = "show_cosmos_account" ->
             CosmosCommands_show_account(p.name, p.resource_group,
                 self.subscription_id)
      [] p.method = "create_cosmos_account" ->
             CosmosCommands_create_account(p.name, p.resource_group,
                 p.location, p.kind, p.capabilities, p.enable_automatic_failover,
                 p.enable_multiple_write_locations, self.subscription_id)
      [] p.method = "update_cosmos_account" ->
             CosmosCommands_update_account(p.name, p.resource_group,
                 p.enable_automatic_failover, p.enable_multiple_write_locations,
                 self.subscription_id)
      [] p.method = "delete_cosmos_account" ->
             CosmosCommands_delete_account(p.name, p.resource_group,
                 self.subscription_id)
      [] p.method = "list_cosmos_keys" ->
             CosmosCommands_list_keys(p.account_name, p.resource_group,
                 self.subscription_id)
      [] p.method = "list_cosmos_read_only_keys" ->
             CosmosCommands_list_read_only_keys(p.account_name,
                 p.resource_group, self.subscription_id)
      [] p.method = "regenerate_cosmos_key" ->
             CosmosCommands_regenerate_key(p.account_name, p.resource_group,
                 p.key_kind, self.subscription_id)
      [] p.method = "list_cosmos_connection_strings" ->
             CosmosCommands_list_connection_strings(p.account_name,
                 p.resource_group, self.subscription_id)
      [] p.method = "list_sql_databases" ->
             CosmosCommands_list_sql_databases(p.account_name,
                 p.resource_group, self.subscription_id)
      [] p.method = "show_sql_database" ->
             CosmosCommands_show_sql_database(p.account_name,
                 p.resource_group, p.database_name, self.subscription_id)
      [] p.method = "create_sql_database" ->
             CosmosCommands_create_sql_database(p.account_name,
                 p.resource_group, p.database_name, p.throughput,
                 p.max_throughput, self.subscription_id)
      [] p.method = "delete_sql_database" ->
             CosmosCommands_delete_sql_database(p.account_name,
                 p.resource_group, p.database_name, self.subscription_id)
      [] p.method = "list_sql_containers" ->
             CosmosCommands_list_sql_containers(p.account_name,
                 p.resource_group, p.database_name)
      [] p.method = "show_sql_container" ->
             CosmosCommands_show_sql_container(p.account_name,
                 p.resource_group, p.database_name, p.container_name)
      [] p.method = "create_sql_container" ->
             CosmosCommands_create_sql_container(p.account_name,
                 p.resource_group, p.database_name, p.container_name,
                 p.partition_key_path, p.throughput, p.max_throughput)
      [] p.method = "delete_sql_container" ->
             CosmosCommands_delete_sql_container(p.account_name,
                 p.resource_group, p.database_name, p.container_name)
      [] p.method = "get_database_throughput" ->
             CosmosCommands_get_database_throughput(p.account_name,
                 p.resource_group, p.database_name)
      [] p.method = "update_database_throughput" ->
             CosmosCommands_update_database_throughput(p.account_name,
                 p.resource_group, p.database_name, p.throughput,
                 p.max_throughput)
      [] p.method = "get_container_throughput" ->
             CosmosCommands_get_container_throughput(p.account_name,
                 p.resource_group, p.database_name, p.container_name)
      [] p.method = "update_container_throughput" ->
             CosmosCommands_update_container_throughput(p.account_name,
                 p.resource_group, p.database_name, p.container_name,
                 p.throughput, p.max_throughput)
      [] p.method = "list_mongodb_databases" ->
             CosmosCommands_list_mongodb_databases(p.account_name,
                 p.resource_group)
      [] p.method = "list_mongodb_collections" ->
             CosmosCommands_list_mongodb_collections(p.account_name,
                 p.resource_group, p.database_name)
      [] p.method = "list_cosmos_account_locations" ->
             CosmosCommands_list_account_locations(p.account_name,
                 p.resource_group)
      [] p.method = "cosmos_failover_priority_change" ->
             CosmosCommands_failover_priority_change(p.account_name,
                 p.resource_group, p.failover_policies)

\* what a method of AzureClient awaits, in order: verify_setup()? if
\* auto_check_auth, then its command; each ? returns the failure at once
ClientStages(self, p) ==
    LET Command(cmd) ==
            <<Stage(cmd.run, cmd.args, IF cmd.run = "execute" THEN cmd.T ELSE "none")>>
    IN  IF p.method = "verify_setup" THEN verify_setup(self)
        ELSE (IF self.auto_check_auth THEN verify_setup(self) ELSE <<>>)
                 \o Command(ClientCommand(self, p))

---------------------------------------------------------------------------
(* The inputs the model draws.                                             *)

Subcommands == {"group", "list"}
ParamValues == {"a", "b"}
OptionalValues == {<<>>, <<"a">>}
SubscriptionIds == {<<>>, <<"sub-1">>}

\* the target types of a structured execution
Shapes == {"Capability", "Subscription"}
ShapeOf(T) == IF Kind(T) = "struct" THEN StructOf(T) ELSE [name |-> T]

\* the ways a child ends: exit 0, exit 1, exit 2, killed by signal 9
Statuses == {Exited(0), Exited(1), Exited(2), Signaled(9)}

\* the bytes a child writes to stdout:
\*   nothing; a newline; {"name":"x"}; {"name" (cut short); {"id":"x"};
\*   {"name":"?"} where ? is the byte FF, which is not UTF-8
StdoutSamples ==
    { <<>>,
      <<10>>,
      <<123, 34, 110, 97, 109, 101, 34, 58, 34, 120, 34, 125>>,
      <<123, 34, 110, 97, 109, 101, 34>>,
      <<123, 34, 105, 100, 34, 58, 34, 120, 34, 125>>,
      <<123, 34, 110, 97, 109, 101, 34, 58, 34, 255, 34, 125>> }

\* the bytes a child writes to stderr:
\*   nothing; 'az login' (in quotes); az logout; the byte FF
StderrSamples ==
    { <<>>,
      <<39, 97, 122, 32, 108, 111, 103, 105, 110, 39>>,
      <<97, 122, 32, 108, 111, 103, 111, 117, 116>>,
      <<255>> }

\* the std::io::Error kinds of a failed spawn
IoErrors == {"NotFound", "PermissionDenied"}

\* the arguments of the AzureClient calls
ClientSubscriptions == {"sub-1"}
Names == {"n"}
Kinds == {<<>>, <<"MongoDB">>}
CapabilityLists == {<<>>, << <<>> >>, << <<"a", "a">> >>}
OptionalBools == {<<>>, <<TRUE>>, <<FALSE>>}
Throughputs == {<<>>, <<400>>}
FailoverPolicies == {<<>>, << <<"eastus", 0>> >>, << <<"eastus", 1>>, <<"westus", 0>> >>}

\* the calls of AzureClient methods the model draws
ClientCalls ==
    [method : {"list_subscriptions"}]
    \cup [method : {"show_current_subscription"}]
    \cup [method : {"set_subscription"}, subscription_id : {"sub-2"}]
    \cup [method : {"list_locations"}]
    \cup [method : {"list_resource_groups"}, subscription_id : {<<>>,
          <<"sub-2">>}]
    \cup [method : {"show_resource_group"}, name : Names]
    \cup [method : {"create_resource_group"}, name : Names,
          location : {"eastus"}]
    \cup [method : {"delete_resource_group"}, name : Names]
    \cup [method : {"list_cosmos_accounts"}, resource_group : {<<>>,
          <<"rg">>}]
    \cup [method : {"show_cosmos_account"}, name : Names,
          resource_group : {"rg"}]
    \cup [method : {"create_cosmos_account"}, name : Names,
          resource_group : {"rg"}, location : {"eastus"}, kind : Kinds,
          capabilities : CapabilityLists,
          enable_automatic_failover : OptionalBools,
          enable_multiple_write_locations : OptionalBools]
    \cup [method : {"update_cosmos_account"}, name : Names,
          resource_group : {"rg"}, enable_automatic_failover : OptionalBools,
          enable_multiple_write_locations : OptionalBools]
    \cup [method : {"delete_cosmos_account"}, name : Names,
          resource_group : {"rg"}]
    \cup [method : {"list_cosmos_keys"}, account_name : Names,
          resource_group : {"rg"}]
    \cup [method : {"list_cosmos_read_only_keys"}, account_name : Names,
          resource_group : {"rg"}]
    \cup [method : {"regenerate_cosmos_key"}, account_name : Names,
          resource_group : {"rg"}, key_kind : {"primary"}]
    \cup [method : {"list_cosmos_connection_strings"}, account_name : Names,
          resource_group : {"rg"}]
    \cup [method : {"list_sql_databases"}, account_name : Names,
          resource_group : {"rg"}]
    \cup [method : {"show_sql_database"}, account_name : Names,
          resource_group : {"rg"}, database_name : {"db"}]
    \cup [method : {"create_sql_database"}, account_name : Names,
          resource_group : {"rg"}, database_name : {"db"},
          throughput : Throughputs, max_throughput : Throughputs]
    \cup [method : {"delete_sql_database"}, account_name : Names,
          resource_group : {"rg"}, database_name : {"db"}]
    \cup [method : {"list_sql_containers"}, account_name : Names,
          resource_group : {"rg"}, database_name : {"db"}]
    \cup [method : {"show_sql_container"}, account_name : Names,
          resource_group : {"rg"}, database_name : {"db"},
          container_name : {"c"}]
    \cup [method : {"create_sql_container"}, account_name : Names,
          resource_group : {"rg"}, database_name : {"db"},
          container_name : {"c"}, partition_key_path : {"/id"},
          throughput : Throughputs, max_throughput : Throughputs]
    \cup [method : {"delete_sql_container"}, account_name : Names,
          resource_group : {"rg"}, database_name : {"db"},
          container_name : {"c"}]
    \cup [method : {"get_database_throughput"}, account_name : Names,
          resource_group : {"rg"}, database_name : {"db"}]
    \cup [method : {"update_database_throughput"}, account_name : Names,
          resource_group : {"rg"}, database_name : {"db"},
          throughput : Throughputs, max_throughput : Throughputs]
    \cup [method : {"get_container_throughput"}, account_name : Names,
          resource_group : {"rg"}, database_name : {"db"},
          container_name : {"c"}]
    \cup [method : {"update_container_throughput"}, account_name : Names,
          resource_group : {"rg"}, database_name : {"db"},
          container_name : {"c"}, throughput : Throughputs,
          max_throughput : Throughputs]
    \cup [method : {"list_mongodb_databases"}, account_name : Names,
          resource_group : {"rg"}]
    \cup [method : {"list_mongodb_collections"}, account_name : Names,
          resource_group : {"rg"}, database_name : {"db"}]
    \cup [method : {"list_cosmos_account_locations"}, account_name : Names,
          resource_group : {"rg"}]
    \cup [method : {"cosmos_failover_priority_change"}, account_name : Names,
          resource_group : {"rg"}, failover_policies : FailoverPolicies]
    \cup [method : {"verify_setup"}]

---------------------------------------------------------------------------
(* The state machine: one caller, which builds a command and executes it,   *)
(* or runs one of the probes.                                               *)

Call(op, f, value, condition) ==
    [op |-> op, flag |-> f, value |-> value, condition |-> condition]

Init ==
    /\ pc = "idle"
    /\ args = <<>>
    /\ calls = <<>>
    /\ entry = "none"
    /\ shape = "none"
    /\ spawns = <<>>
    /\ child = <<>>
    /\ decodes = 0
    /\ result = <<>>
    /\ client = <<>>
    /\ running = <<>>
    /\ given = <<>>
    /\ encoded = <<>>
    /\ again = <<>>
    /\ callers = <<>>

\* AzCommandBuilder::new()
New ==
    /\ pc = "idle"
    /\ pc' = "build"
    /\ args' = new
    /\ UNCHANGED <<callers, client, running, given, encoded, again, calls, entry, shape, spawns, child, decodes, result>>

Subcommand(limit) ==
    /\ pc = "build" /\ Len(calls) < limit
    /\ \E cmd \in Subcommands :
          /\ args' = subcommand(args, cmd)
          /\ calls' = Append(calls, Call("subcommand", cmd, <<>>, TRUE))
    /\ UNCHANGED <<callers, client, running, given, encoded, again, pc, entry, shape, spawns, child, decodes, result>>

Param(limit) ==
    /\ pc = "build" /\ Len(calls) < limit
    /\ \E v \in ParamValues :
          /\ args' = param(args, "--capabilities", v)
          /\ calls' = Append(calls, Call("param", "--capabilities", <<v>>, TRUE))
    /\ UNCHANGED <<callers, client, running, given, encoded, again, pc, entry, shape, spawns, child, decodes, result>>

OptionalParam(limit) ==
    /\ pc = "build" /\ Len(calls) < limit
    /\ \E v \in OptionalValues :
          /\ args' = optional_param(args, "--kind", v)
          /\ calls' = Append(calls, Call("optional_param", "--kind", v, TRUE))
    /\ UNCHANGED <<callers, client, running, given, encoded, again, pc, entry, shape, spawns, child, decodes, result>>

Flag(limit) ==
    /\ pc = "build" /\ Len(calls) < limit
    /\ args' = flag(args, "--yes")
    /\ calls' = Append(calls, Call("flag", "--yes", <<>>, TRUE))
    /\ UNCHANGED <<callers, client, running, given, encoded, again, pc, entry, shape, spawns, child, decodes, result>>

ConditionalFlag(limit) ==
    /\ pc = "build" /\ Len(calls) < limit
    /\ \E b \in BOOLEAN :
          /\ args' = conditional_flag(args, "--enable-automatic-failover", b)
          /\ calls' = Append(calls,
                 Call("conditional_flag", "--enable-automatic-failover", <<>>, b))
    /\ UNCHANGED <<callers, client, running, given, encoded, again, pc, entry, shape, spawns, child, decodes, result>>

SubscriptionCall(limit) ==
    /\ pc = "build" /\ Len(calls) < limit
    /\ \E sub \in SubscriptionIds :
          /\ args' = subscription(args, sub)
          /\ calls' = Append(calls, Call("subscription", "--subscription", sub, TRUE))
    /\ UNCHANGED <<callers, client, running, given, encoded, again, pc, entry, shape, spawns, child, decodes, result>>

\* AzCommandBuilder::build()
Build ==
    /\ pc = "build"
    /\ pc' = "done"
    /\ entry' = "build"
    /\ result' = <<[kind |-> "Tokens", value |-> build(args)]>>
    /\ UNCHANGED <<callers, client, running, given, encoded, again, args, calls, shape, spawns, child, decodes>>

\* AzCommandBuilder::execute::<T>(), which calls execute_az_command(&args)
Execute ==
    /\ pc = "build"
    /\ \E T \in Shapes : shape' = T
    /\ pc' = "spawn"
    /\ entry' = "execute"
    /\ UNCHANGED <<callers, client, running, given, encoded, again, args, calls, spawns, child, decodes, result>>

\* AzCommandBuilder::execute_raw(), which calls execute_az_command_raw(&args)
ExecuteRaw ==
    /\ pc = "build"
    /\ pc' = "spawn"
    /\ entry' = "execute_raw"
    /\ UNCHANGED <<callers, client, running, given, encoded, again, args, calls, shape, spawns, child, decodes, result>>

\* check_az_cli()
CheckAzCli ==
    /\ pc = "idle"
    /\ pc' = "spawn"
    /\ entry' = "check_az_cli"
    /\ UNCHANGED <<callers, client, running, given, encoded, again, args, calls, shape, spawns, child, decodes, result>>

\* check_authentication(), which calls execute_az_command_raw(&["account", "show"])
CheckAuthentication ==
    /\ pc = "idle"
    /\ pc' = "spawn"
    /\ entry' = "check_authentication"
    /\ args' = AccountShow
    /\ UNCHANGED <<callers, client, running, given, encoded, again, calls, shape, spawns, child, decodes, result>>

\* the Command the running function builds
CommandOf(e, a) == IF e = "check_az_cli" THEN VersionCommand ELSE RawCommand(a)

\* the running function's value, and the from_str calls it made, once
\* Command::output() has given output
Return(e, a, T, output) ==
    IF e = "execute" THEN execute_az_command(a, ShapeOf(T), output)
    ELSE IF e = "execute_raw"
    THEN [ret |-> execute_az_command_raw(a, output), decodes |-> 0]
    ELSE IF e = "check_az_cli" THEN [ret |-> check_az_cli(output), decodes |-> 0]
    ELSE [ret |-> check_authentication(output), decodes |-> 0]

\* AfterReturn as it would be if a failed call were run again
AfterReturn_Retry(ret) == IF ret.kind # "Ok" THEN "spawn" ELSE "done"

\* where the caller is once the function has its value: it has returned
AfterReturn(ret) == "done"

\* the function returns r.ret to its caller, having made r.decodes from_str calls
Returns(r) ==
    /\ result' = <<r.ret>>
    /\ decodes' = decodes + r.decodes
    /\ pc' = AfterReturn(r.ret)

\* Command::output() spawns the child, which runs
Spawn ==
    /\ pc = "spawn"
    /\ spawns' = Append(spawns, [cmd |-> CommandOf(entry, args), started |-> TRUE])
    /\ pc' = "running"
    /\ UNCHANGED <<callers, client, running, given, encoded, again, args, calls, entry, shape, child, decodes, result>>

\* Command::output() fails to spawn the child, and the function returns
SpawnFails ==
    /\ pc = "spawn"
    /\ spawns' = Append(spawns, [cmd |-> CommandOf(entry, args), started |-> FALSE])
    /\ \E e \in IoErrors : Returns(Return(entry, args, shape, SpawnFailed(e)))
    /\ UNCHANGED <<callers, client, running, given, encoded, again, args, calls, entry, shape, child>>

\* a Command::output() that gives up on a child that is still running
ChildExits_Timeout ==
    /\ pc = "running"
    /\ Returns([ret |-> [kind |-> "CliExecution", message |-> "timed out"], decodes |-> 0])
    /\ UNCHANGED <<callers, client, running, given, encoded, again, args, calls, entry, shape,
                   spawns, child>>

\* the child exits, Command::output() gives what it captured, and the
\* function returns
ChildExits ==
    /\ pc = "running"
    /\ \E st \in Statuses, out \in StdoutSamples, err \in StderrSamples :
          /\ child' = <<[status |-> st, stdout |-> out, stderr |-> err]>>
          /\ Returns(Return(entry, args, shape,
                            Captured(spawns[Len(spawns)].cmd,
                                     [status |-> st, stdout |-> out, stderr |-> err])))
    /\ UNCHANGED <<callers, client, running, given, encoded, again, args, calls, entry, shape, spawns>>

BuilderCall(limit) ==
    \/ Subcommand(limit)
    \/ Param(limit)
    \/ OptionalParam(limit)
    \/ Flag(limit)
    \/ ConditionalFlag(limit)
    \/ SubscriptionCall(limit)

Next ==
    \/ New
    \/ BuilderCall(MaxCalls)
    \/ Build
    \/ Execute
    \/ ExecuteRaw
    \/ CheckAzCli
    \/ CheckAuthentication
    \/ Spawn
    \/ SpawnFails
    \/ ChildExits

Spec == Init /\ [][Next]_vars

\* the same with shorter commands, where Command::output() does come back
\* from the spawn call and every child that was spawned does exit
NextTermination ==
    \/ New
    \/ BuilderCall(MaxTerminationCalls)
    \/ Build
    \/ Execute
    \/ ExecuteRaw
    \/ CheckAzCli
    \/ CheckAuthentication
    \/ Spawn
    \/ SpawnFails
    \/ ChildExits

SpecTermination ==
    /\ Init /\ [][NextTermination]_vars
    /\ WF_vars(Spawn \/ SpawnFails) /\ WF_vars(ChildExits)

\* the builder alone: calls, then build()
NextBuilder ==
    \/ New
    \/ BuilderCall(MaxBuilderCalls)
    \/ Build

SpecBuilder == Init /\ [][NextBuilder]_vars

---------------------------------------------------------------------------
(* One AzureClient: it is constructed, its subscription is set and cleared, *)
(* and one of its methods is called.                                        *)

\* a call of a constructor or of a method that sets the subscription, as
\* the history keeps it
ClientOp(op, value) == [op |-> op, value |-> value]

ClientNew ==
    /\ pc = "idle" /\ client = <<>>
    /\ client' = <<AzureClient_new>>
    /\ calls' = <<ClientOp("new", <<>>)>>
    /\ UNCHANGED <<callers, pc, args, entry, shape, spawns, child, decodes, result, running,
                   given, encoded, again>>

ClientNewNoAuthCheck ==
    /\ pc = "idle" /\ client = <<>>
    /\ client' = <<AzureClient_new_no_auth_check>>
    /\ calls' = <<ClientOp("new_no_auth_check", <<>>)>>
    /\ UNCHANGED <<callers, pc, args, entry, shape, spawns, child, decodes, result, running,
                   given, encoded, again>>

ClientWithSubscription(ids) ==
    /\ pc = "idle" /\ client = <<>>
    /\ \E s \in ids :
          /\ client' = <<AzureClient_with_subscription(s)>>
          /\ calls' = <<ClientOp("with_subscription", <<s>>)>>
    /\ UNCHANGED <<callers, pc, args, entry, shape, spawns, child, decodes, result, running,
                   given, encoded, again>>

ClientDefault ==
    /\ pc = "idle" /\ client = <<>>
    /\ client' = <<AzureClient_default>>
    /\ calls' = <<ClientOp("default", <<>>)>>
    /\ UNCHANGED <<callers, pc, args, entry, shape, spawns, child, decodes, result, running,
                   given, encoded, again>>

UseSubscription(limit, ids) ==
    /\ pc = "idle" /\ client # <<>> /\ Len(calls) <= limit
    /\ \E s \in ids :
          /\ client' = <<use_subscription(client[1], s)>>
          /\ calls' = Append(calls, ClientOp("use_subscription", <<s>>))
    /\ UNCHANGED <<callers, pc, args, entry, shape, spawns, child, decodes, result, running,
                   given, encoded, again>>

ClearSubscription(limit) ==
    /\ pc = "idle" /\ client # <<>> /\ Len(calls) <= limit
    /\ client' = <<clear_subscription(client[1])>>
    /\ calls' = Append(calls, ClientOp("clear_subscription", <<>>))
    /\ UNCHANGED <<callers, pc, args, entry, shape, spawns, child, decodes, result, running,
                   given, encoded, again>>

GetSubscription ==
    /\ pc = "idle" /\ client # <<>>
    /\ entry' = "get_subscription"
    /\ result' = <<[kind |-> "Ok", value |-> get_subscription(client[1])]>>
    /\ pc' = "done"
    /\ UNCHANGED <<callers, args, calls, shape, spawns, child, decodes, client, running,
                   given, encoded, again>>

\* the method calls the function of a stage
Enter(stage) ==
    /\ entry' = stage.entry
    /\ args' = stage.args
    /\ shape' = stage.shape
    /\ pc' = "spawn"

\* a method of AzureClient is called, and calls the first function it awaits
ClientCall(ps) ==
    /\ pc = "idle" /\ client # <<>>
    /\ \E p \in ps :
          LET Start(stages) ==
                  /\ running' = <<[call |-> p, stages |-> stages, returned |-> <<>>]>>
                  /\ Enter(stages[1])
          IN  Start(ClientStages(client[1], p))
    /\ UNCHANGED <<callers, calls, spawns, child, decodes, result, client, given, encoded, again>>

\* a method that goes on to its next function whatever the last one returned
Proceed_Regardless ==
    /\ pc = "done" /\ running # <<>>
    /\ Len(running[1].stages) > 1
    /\ running' = <<[running[1] EXCEPT !.stages = Tail(@),
                                        !.returned = Append(@, result[1])]>>
    /\ Enter(running[1].stages[2])
    /\ result' = <<>>
    /\ child' = <<>>
    /\ UNCHANGED <<callers, calls, spawns, decodes, client, given, encoded, again>>

\* the function awaited returned Ok and the method calls the next one (when
\* it returned a failure, or was the last, its value is the method's value);
\* returned keeps what the functions awaited so far gave, in order
Proceed ==
    /\ pc = "done" /\ running # <<>>
    /\ Len(running[1].stages) > 1
    /\ result[1].kind = "Ok"
    /\ running' = <<[running[1] EXCEPT !.stages = Tail(@),
                                        !.returned = Append(@, result[1])]>>
    /\ Enter(running[1].stages[2])
    /\ result' = <<>>
    /\ child' = <<>>
    /\ UNCHANGED <<callers, calls, spawns, decodes, client, given, encoded, again>>

NextClient ==
    \/ ClientNew
    \/ ClientNewNoAuthCheck
    \/ ClientWithSubscription(ClientSubscriptions)
    \/ ClientDefault
    \/ UseSubscription(MaxClientCalls, ClientSubscriptions)
    \/ ClearSubscription(MaxClientCalls)
    \/ GetSubscription
    \/ ClientCall(ClientCalls)
    \/ Proceed
    \/ Spawn
    \/ SpawnFails
    \/ ChildExits

SpecClient == Init /\ [][NextClient]_vars

\* the subscription of a client alone: it is set and cleared several times,
\* then read, or used by a method that takes it
SubscriptionIdsGiven == {"sub-1", "sub-2"}

SubscriptionUsers ==
    [method : {"list_locations"}]
    \cup [method : {"show_cosmos_account"}, name : Names, resource_group : {"rg"}]

NextSubscription ==
    \/ ClientNew
    \/ ClientNewNoAuthCheck
    \/ ClientWithSubscription(SubscriptionIdsGiven)
    \/ ClientDefault
    \/ UseSubscription(MaxSubscriptionCalls, SubscriptionIdsGiven)
    \/ ClearSubscription(MaxSubscriptionCalls)
    \/ GetSubscription
    \/ ClientCall(SubscriptionUsers)
    \/ Proceed
    \/ Spawn
    \/ SpawnFails
    \/ ChildExits

SpecSubscription == Init /\ [][NextSubscription]_vars

---------------------------------------------------------------------------
(* Decoding and encoding alone: serde_json::from_str is given the text of   *)
(* an object, serde_json::to_string writes the decoded value, and from_str  *)
(* reads what it wrote.                                                     *)

\* a member of a JSON object: its key and the text of its value
Member(key, value) == [key |-> key, value |-> value]

\* the text of the object with the given members: {"key": value, "key": value}
ObjectText(members) ==
    LET Text(m) == <<34>> \o m.key \o <<34, 58, 32>> \o m.value
    IN  <<123>>
            \o Flat([k \in 1..((2 * Len(members)) - 1) |->
                        IF k % 2 = 1 THEN Text(members[(k + 1) \div 2]) ELSE <<44, 32>>],
                    1, (2 * Len(members)) - 1)
            \o <<125>>

\* a key of the field other than its own, if it has one
AliasOf(f) == IF f.keys = {f.key} THEN f.key ELSE CHOOSE k \in f.keys : k # f.key

\* a text of a value of the type named ty.  A struct has its Option fields
\* only while depth > 0, and each is written one level less deep; aliased
\* says whether the fields are written under an alias
\*   String "a\"b"   bool true   integer -7   Value { "x" : [1, null] }
\*   Vec [v]   HashMap {"k": v, "j": v}
RECURSIVE SampleText(_, _, _)
SampleText(ty, depth, aliased) ==
    LET Key(f) == IF aliased THEN AliasOf(f) ELSE f.key
        Fields(T) == SelectSeq(T.fields, LAMBDA f : depth > 0 \/ ~f.optional)
        Members(fields) ==
            [i \in DOMAIN fields |->
                Member(Key(fields[i]), SampleText(fields[i].ty, depth - 1, aliased))]
        Of(kind) ==
            IF kind = "string" THEN <<34, 97, 92, 34, 98, 34>>
            ELSE IF kind = "bool" THEN <<116, 114, 117, 101>>
            ELSE IF kind = "int" THEN <<45, 55>>
            ELSE IF kind = "value"
            THEN <<123, 32, 34, 120, 34, 32, 58, 32, 91, 49, 44, 32,
                   110, 117, 108, 108, 93, 32, 125>>
            ELSE IF kind = "vec"
            THEN <<91>> \o SampleText(ElemOf(ty), depth, aliased) \o <<93>>
            ELSE IF kind = "map"
            THEN ObjectText(<<Member(<<107>>, SampleText(ValueOf(ty), depth, aliased)),
                              Member(<<106>>, SampleText(ValueOf(ty), depth, aliased))>>)
            ELSE ObjectText(Members(Fields(StructOf(ty))))
    IN  Of(Kind(ty))

\* the members of a sample object of the struct named ty: its required
\* fields and, if extra is not 0, its Option field number extra, which is
\* written MaxDepth deep
SampleMembers(ty, extra, aliased) ==
    LET all == StructOf(ty).fields
        chosen == {n \in DOMAIN all : ~all[n].optional \/ n = extra}
        Nth[k \in 1..Cardinality(chosen)] ==
            CHOOSE n \in chosen : Cardinality({m \in chosen : m < n}) = k - 1
    IN  [k \in 1..Cardinality(chosen) |->
            Member(IF aliased THEN AliasOf(all[Nth[k]]) ELSE all[Nth[k]].key,
                   SampleText(all[Nth[k]].ty,
                              IF Nth[k] = extra THEN MaxDepth ELSE 0, aliased))]

\* the Option fields of the struct named ty, by number
OptionFields(ty) ==
    {n \in DOMAIN StructOf(ty).fields : StructOf(ty).fields[n].optional}

\* the types the commands decode objects into
DecodeShapes ==
    {"Subscription", "CosmosAccount", "ResourceGroup", "account::ResourceGroup",
     "CosmosKeys", "CosmosConnectionStrings", "CosmosDatabase", "CosmosContainer",
     "ThroughputSettings", "AccountLocation"}

\* objects of Subscription: display_name under either key, tenant_id under
\* its own key, its alias, or both in either order, is_default absent, under
\* its alias or null
SubscriptionObjects ==
    LET id == <<Member(<<105, 100>>, <<34, 115, 34>>)>>
        state == <<Member(<<115, 116, 97, 116, 101>>, <<34, 69, 110, 97, 98, 108, 101, 100, 34>>)>>
        display_name == {<<Member(<<100, 105, 115, 112, 108, 97, 121, 95, 110, 97, 109, 101>>, <<34, 100, 34>>)>>, <<Member(<<110, 97, 109, 101>>, <<34, 100, 34>>)>>}
        tenant_id ==
            {<<Member(<<116, 101, 110, 97, 110, 116, 95, 105, 100>>, <<34, 99, 34>>)>>, <<Member(<<116, 101, 110, 97, 110, 116, 73, 100>>, <<34, 97, 34>>)>>,
             <<Member(<<116, 101, 110, 97, 110, 116, 95, 105, 100>>, <<34, 99, 34>>),
               Member(<<116, 101, 110, 97, 110, 116, 73, 100>>, <<34, 97, 34>>)>>,
             <<Member(<<116, 101, 110, 97, 110, 116, 73, 100>>, <<34, 97, 34>>),
               Member(<<116, 101, 110, 97, 110, 116, 95, 105, 100>>, <<34, 99, 34>>)>>}
        is_default == {<<>>, <<Member(<<105, 115, 68, 101, 102, 97, 117, 108, 116>>, <<116, 114, 117, 101>>)>>, <<Member(<<105, 115, 95, 100, 101, 102, 97, 117, 108, 116>>, <<110, 117, 108, 108>>)>>}
    IN  {id \o d \o state \o t \o i : d \in display_name, t \in tenant_id, i \in is_default}

\* objects of CosmosAccount: resource_group under its alias, its own key or
\* both in either order, type, provisioning_state and document_endpoint under
\* either key, and no Option field, tags, or a null backupPolicy
CosmosAccountObjects ==
    LET base == <<Member(<<110, 97, 109, 101>>, <<34, 110, 34>>),
                  Member(<<105, 100>>, <<34, 105, 34>>),
                  Member(<<108, 111, 99, 97, 116, 105, 111, 110>>, <<34, 108, 34>>),
                  Member(<<107, 105, 110, 100>>, <<34, 107, 34>>)>>
        resource_group ==
            {<<Member(<<114, 101, 115, 111, 117, 114, 99, 101, 71, 114, 111, 117, 112>>, <<34, 97, 34>>)>>, <<Member(<<114, 101, 115, 111, 117, 114, 99, 101, 95, 103, 114, 111, 117, 112>>, <<34, 99, 34>>)>>,
             <<Member(<<114, 101, 115, 111, 117, 114, 99, 101, 71, 114, 111, 117, 112>>, <<34, 97, 34>>),
               Member(<<114, 101, 115, 111, 117, 114, 99, 101, 95, 103, 114, 111, 117, 112>>, <<34, 99, 34>>)>>,
             <<Member(<<114, 101, 115, 111, 117, 114, 99, 101, 95, 103, 114, 111, 117, 112>>, <<34, 99, 34>>),
               Member(<<114, 101, 115, 111, 117, 114, 99, 101, 71, 114, 111, 117, 112>>, <<34, 97, 34>>)>>}
        resource_type == {<<Member(<<116, 121, 112, 101>>, <<34, 116, 34>>)>>, <<Member(<<114, 101, 115, 111, 117, 114, 99, 101, 84, 121, 112, 101>>, <<34, 116, 34>>)>>}
        state_and_endpoint ==
            {<<Member(<<112, 114, 111, 118, 105, 115, 105, 111, 110, 105, 110, 103, 83, 116, 97, 116, 101>>, <<34, 112, 34>>),
               Member(<<100, 111, 99, 117, 109, 101, 110, 116, 69, 110, 100, 112, 111, 105, 110, 116>>, <<34, 101, 34>>)>>,
             <<Member(<<112, 114, 111, 118, 105, 115, 105, 111, 110, 105, 110, 103, 95, 115, 116, 97, 116, 101>>, <<34, 112, 34>>),
               Member(<<100, 111, 99, 117, 109, 101, 110, 116, 95, 101, 110, 100, 112, 111, 105, 110, 116>>, <<34, 101, 34>>)>>}
        options == {<<>>, <<Member(<<116, 97, 103, 115>>, <<123, 34, 107, 34, 58, 34, 118, 34, 125>>)>>, <<Member(<<98, 97, 99, 107, 117, 112, 80, 111, 108, 105, 99, 121>>, <<110, 117, 108, 108>>)>>}
    IN  {base \o r \o y \o e \o o :
            r \in resource_group, y \in resource_type, e \in state_and_endpoint,
            o \in options}

\* the objects given to from_str, each with the type it is decoded into
Inputs ==
    [shape : {"Subscription"}, given : SubscriptionObjects]
    \cup [shape : {"CosmosAccount"}, given : CosmosAccountObjects]
    \cup UNION {{[shape |-> T, given |-> SampleMembers(T, extra, a)] :
                     extra \in {0} \cup OptionFields(T), a \in BOOLEAN} :
                 T \in DecodeShapes}

InitDecode ==
    /\ pc = "decode"
    /\ \E i \in Inputs : shape = i.shape /\ given = i.given
    /\ args = <<>>
    /\ calls = <<>>
    /\ entry = "none"
    /\ spawns = <<>>
    /\ child = <<>>
    /\ decodes = 0
    /\ result = <<>>
    /\ client = <<>>
    /\ running = <<>>
    /\ encoded = <<>>
    /\ again = <<>>
    /\ callers = <<>>

\* serde_json::from_str::<T>(text)
FromStr ==
    /\ pc = "decode"
    /\ entry' = "from_str"
    /\ LET Returned(r) ==
               /\ result' = <<r>>
               /\ pc' = IF r.ok THEN "decoded" ELSE "done"
       IN  Returned(from_str(ShapeOf(shape), ObjectText(given)))
    /\ decodes' = decodes + 1
    /\ UNCHANGED <<callers, args, calls, shape, spawns, child, client, running, given,
                   encoded, again>>

\* serde_json::to_string(&value)
ToStringCall ==
    /\ pc = "decoded"
    /\ entry' = "to_string"
    /\ \E reversed \in BOOLEAN :
          encoded' = <<to_string(ShapeOf(shape), result[1].val, reversed)>>
    /\ pc' = "encoded"
    /\ UNCHANGED <<callers, args, calls, shape, spawns, child, decodes, result, client,
                   running, given, again>>

\* serde_json::from_str::<T>(&json) of the text to_string wrote
FromStrEncoded ==
    /\ pc = "encoded"
    /\ entry' = "from_str"
    /\ again' = <<from_str(ShapeOf(shape), encoded[1])>>
    /\ decodes' = decodes + 1
    /\ pc' = "done"
    /\ UNCHANGED <<callers, args, calls, shape, spawns, child, result, client, running,
                   given, encoded>>

NextDecode ==
    \/ FromStr
    \/ ToStringCall
    \/ FromStrEncoded

SpecDecode == InitDecode /\ [][NextDecode]_vars

---------------------------------------------------------------------------
(* Concurrent callers.  Each calls one function of utils.rs.  The function  *)
(* keeps its tokens, its Command and the Output in its own frame: utils.rs  *)
(* has no static, no shared buffer and no lock, so a step of one caller     *)
(* reads and writes that caller's frame alone.                              *)

Callers == 1..NumCallers

\* what a caller calls: the function, its tokens and its target type
ConcurrentCalls ==
    { [entry |-> "execute", args |-> <<"account", "list">>, shape |-> "Capability"],
      [entry |-> "execute_raw", args |-> <<"group", "list">>, shape |-> "none"],
      [entry |-> "check_az_cli", args |-> <<>>, shape |-> "none"],
      [entry |-> "check_authentication", args |-> AccountShow, shape |-> "none"] }

\* what a child of a concurrent caller does: exit 0 with {"name":"x"} on
\* stdout, exit 1 with 'az login' on stderr, or exit 1 with nothing written
ConcurrentChildren ==
    { [status |-> Exited(0), stderr |-> <<>>,
       stdout |-> <<123, 34, 110, 97, 109, 101, 34, 58, 34, 120, 34, 125>>],
      [status |-> Exited(1), stdout |-> <<>>,
       stderr |-> <<39, 97, 122, 32, 108, 111, 103, 105, 110, 39>>],
      [status |-> Exited(1), stdout |-> <<>>, stderr |-> <<>>] }

\* the frame of a caller that has called nothing yet
NoCall == [pc |-> "idle", entry |-> "none", args |-> <<>>, shape |-> "none",
           output |-> <<>>, ret |-> <<>>]

InitConcurrent ==
    /\ pc = "idle"
    /\ args = <<>>
    /\ calls = <<>>
    /\ entry = "none"
    /\ shape = "none"
    /\ spawns = <<>>
    /\ child = <<>>
    /\ decodes = 0
    /\ result = <<>>
    /\ client = <<>>
    /\ running = <<>>
    /\ given = <<>>
    /\ encoded = <<>>
    /\ again = <<>>
    /\ callers = [c \in Callers |-> NoCall]

\* caller c calls a function of utils.rs with its own tokens
CallerCalls(c) ==
    /\ callers[c].pc = "idle"
    /\ \E call \in ConcurrentCalls :
          /\ callers' = [callers EXCEPT ![c] =
                 [pc |-> "spawn", entry |-> call.entry, args |-> call.args,
                  shape |-> call.shape, output |-> <<>>, ret |-> <<>>]]
          /\ calls' = Append(calls, [caller |-> c, entry |-> call.entry,
                                     args |-> call.args, shape |-> call.shape])
    /\ UNCHANGED <<pc, args, entry, shape, spawns, child, decodes, result, client,
                   running, given, encoded, again>>

\* CallerSpawn as it would be if the tokens were kept in one buffer for all
\* callers, which the last call overwrote
CallerSpawn_SharedTokens(c) ==
    /\ callers[c].pc = "spawn"
    /\ spawns' = Append(spawns, [caller |-> c, started |-> TRUE,
                                 cmd |-> CommandOf(callers[c].entry,
                                                   calls[Len(calls)].args)])
    /\ callers' = [callers EXCEPT ![c].pc = "running"]
    /\ UNCHANGED <<pc, args, calls, entry, shape, child, decodes, result, client,
                   running, given, encoded, again>>

\* Command::output() of caller c spawns its child, which runs
CallerSpawn(c) ==
    /\ callers[c].pc = "spawn"
    /\ spawns' = Append(spawns, [caller |-> c, started |-> TRUE,
                                 cmd |-> CommandOf(callers[c].entry, callers[c].args)])
    /\ callers' = [callers EXCEPT ![c].pc = "running"]
    /\ UNCHANGED <<pc, args, calls, entry, shape, child, decodes, result, client,
                   running, given, encoded, again>>

\* the function of caller c has output from Command::output() and returns
CallerReturns(c, output) ==
    LET Returned(r) ==
            /\ callers' = [callers EXCEPT ![c].pc = "done", ![c].output = <<output>>,
                                          ![c].ret = <<r.ret>>]
            /\ decodes' = decodes + r.decodes
    IN  Returned(Return(callers[c].entry, callers[c].args, callers[c].shape, output))

\* Command::output() of caller c fails to spawn its child
CallerSpawnFails(c) ==
    /\ callers[c].pc = "spawn"
    /\ spawns' = Append(spawns, [caller |-> c, started |-> FALSE,
                                 cmd |-> CommandOf(callers[c].entry, callers[c].args)])
    /\ CallerReturns(c, SpawnFailed("NotFound"))
    /\ UNCHANGED <<pc, args, calls, entry, shape, child, result, client, running,
                   given, encoded, again>>

\* the child of caller c exits
CallerChildExits(c) ==
    /\ callers[c].pc = "running"
    /\ \E ch \in ConcurrentChildren :
          CallerReturns(c, Captured(CommandOf(callers[c].entry, callers[c].args), ch))
    /\ UNCHANGED <<pc, args, calls, entry, shape, spawns, child, result, client,
                   running, given, encoded, again>>

NextConcurrent ==
    \E c \in Callers :
        \/ CallerCalls(c)
        \/ CallerSpawn(c)
        \/ CallerSpawnFails(c)
        \/ CallerChildExits(c)

SpecConcurrent == InitConcurrent /\ [][NextConcurrent]_vars

---------------------------------------------------------------------------
(* The claims.                                                             *)

\* the function e has returned
Done(e) == pc = "done" /\ entry = e

\* the value returned, and the child that ran
Ret == result[1]
Child == child[1]

\* the tokens one builder call is to contribute
Tokens(c) ==
    CASE c.op = "subcommand" -> <<c.flag>>
      [] c.op = "param" -> <<c.flag, c.value[1]>>
      [] c.op = "optional_param" -> IF c.value = <<>> THEN <<>> ELSE <<c.flag, c.value[1]>>
      [] c.op = "flag" -> <<c.flag>>
      [] c.op = "conditional_flag" -> IF c.condition THEN <<c.flag>> ELSE <<>>
      [] c.op = "subscription" ->
            IF c.value = <<>> THEN <<>> ELSE <<"--subscription", c.value[1]>>

RECURSIVE InCallOrder(_)
InCallOrder(cs) ==
    IF cs = <<>> THEN <<>> ELSE Tokens(Head(cs)) \o InCallOrder(Tail(cs))

\* C1: after any sequence of builder calls from new(), the builder holds, and
\* build() returns, exactly the concatenation in call order of the tokens each
\* call contributed: nothing reordered, grouped, dropped or de-duplicated.
C1_BuildReturnsCallOrder ==
    /\ pc = "build" => args = InCallOrder(calls)
    /\ Done("build") => Ret.value = InCallOrder(calls)

\* C1's case: the same flag given three times, twice with the same value, and
\* build() returns one pair per call
C1_Witness ==
    /\ Done("build")
    /\ Len(calls) = 3
    /\ \A k \in 1..3 : calls[k].op = "param"
    /\ calls[1] = calls[3] /\ calls[1] # calls[2]
    /\ Ret.value = <<"--capabilities", "a", "--capabilities", "b", "--capabilities", "a">>

\* C2: every spawn of a raw or structured execution runs "az" with the
\* caller's tokens, unchanged and in order, followed by "--output", "json".
C2_ArgvIsTokensThenOutputJson ==
    entry \in {"execute", "execute_raw", "check_authentication"} =>
        \A k \in DOMAIN spawns :
            /\ spawns[k].cmd.program = "az"
            /\ spawns[k].cmd.args = args \o <<"--output", "json">>

\* C2's case: a built command of two tokens has been spawned
C2_Witness ==
    /\ entry = "execute"
    /\ args = <<"group", "list">>
    /\ Len(spawns) = 1
    /\ spawns[1].cmd.args = <<"group", "list", "--output", "json">>

\* the child ran and exited with status zero
ChildSucceeded == child # <<>> /\ success(Child.status)

\* the child ran and did not exit with status zero
ChildFailed == child # <<>> /\ ~success(Child.status)

\* the message of the CliExecution made for an exit status
ExitMessage(status) ==
    "Command failed with exit code: "
        \o ToString(IF status.exited THEN status.code ELSE -1)

\* the bytes are valid UTF-8: decoding and encoding gives them back
IsUtf8(bytes) == Utf8Encode(FromUtf8Lossy(bytes)) = bytes

\* C3: exit 0 with empty stdout makes structured execution fail with
\* CliExecution "Empty output", never JsonParse, and nothing is decoded.
C3_EmptyStdoutIsEmptyOutput ==
    (Done("execute") /\ ChildSucceeded /\ Child.stdout = <<>>) =>
        /\ Ret.kind = "CliExecution"
        /\ Ret.error = "Empty output"
        /\ decodes = 0

\* C3's case: a structured execution whose child exited 0 and wrote nothing
C3_Witness ==
    /\ Done("execute") /\ ChildSucceeded /\ Child.stdout = <<>>
    /\ Ret.kind = "CliExecution"

HasAzLogin(bytes) ==
    \E i \in 1..Len(bytes) :
        i + 7 <= Len(bytes) /\ SubSeq(bytes, i, i + 7) = AzLogin

\* C5: check_authentication runs ["account", "show"]; it returns Ok when that
\* succeeds, Authentication when it fails with a stderr that contains
\* "az login", and any other failure as raw execution made it.
C5_CheckAuthenticationClassifies ==
    entry = "check_authentication" =>
        /\ \A k \in DOMAIN spawns :
              /\ spawns[k].cmd.program = "az"
              /\ spawns[k].cmd.args = <<"account", "show", "--output", "json">>
        /\ pc = "done" =>
              /\ Len(spawns) = 1
              /\ IF child = <<>> THEN Ret.kind = "Io" /\ Ret.error \in IoErrors
                 ELSE IF success(Child.status) THEN Ret = [kind |-> "Ok"]
                 ELSE IF HasAzLogin(Child.stderr) THEN Ret = [kind |-> "Authentication"]
                 ELSE IF Child.stderr = <<>>
                 THEN Ret = [kind |-> "CliExecution", command |-> "az account show",
                             error |-> ExitMessage(Child.status)]
                 ELSE Ret = [kind |-> "CliError", command |-> "az account show",
                             stderr |-> FromUtf8Lossy(Child.stderr)]

\* C5's case: the child exited non-zero with 'az login' (in quotes) on stderr
C5_Witness ==
    /\ Done("check_authentication") /\ ChildFailed
    /\ Child.stderr = <<39, 97, 122, 32, 108, 111, 103, 105, 110, 39>>
    /\ Ret.kind = "Authentication"

\* C6: check_az_cli runs "az --version" alone, decodes nothing, and returns Ok
\* exactly when the child was spawned and exited 0; a non-zero exit and a
\* spawn failure both give CliNotFound.
C6_CheckAzCliAvailability ==
    entry = "check_az_cli" =>
        /\ \A k \in DOMAIN spawns :
              /\ spawns[k].cmd.program = "az"
              /\ spawns[k].cmd.args = <<"--version">>
        /\ decodes = 0
        /\ pc = "done" =>
              /\ Len(spawns) = 1
              /\ Ret = IF ChildSucceeded THEN [kind |-> "Ok"] ELSE [kind |-> "CliNotFound"]

\* C6's case: the child ran and exited non-zero
C6_Witness ==
    /\ Done("check_az_cli") /\ ChildFailed
    /\ Ret.kind = "CliNotFound"

\* C7: exit 0 with a non-empty stdout that is malformed JSON or does not fit
\* the target shape makes structured execution fail with JsonParse holding the
\* parser's diagnostic, never with CliError, CliExecution or Io.
C7_DecodeFailureIsJsonParse ==
    (Done("execute") /\ ChildSucceeded /\ Child.stdout # <<>>) =>
        /\ ~from_str(ShapeOf(shape), FromUtf8Lossy(Child.stdout)).ok =>
              /\ Ret.kind = "JsonParse"
              /\ Ret.diag = from_str(ShapeOf(shape), FromUtf8Lossy(Child.stdout)).diag
        /\ Child.stdout = <<123, 34, 110, 97, 109, 101, 34>> =>
              Ret.kind = "JsonParse" /\ Ret.diag.category = "eof"
        /\ (Child.stdout = <<123, 34, 105, 100, 34, 58, 34, 120, 34, 125>>
                /\ shape = "Capability") =>
              /\ Ret.kind = "JsonParse"
              /\ Ret.diag.category = "data"
              /\ Ret.diag.message = "missing field 'name'"

\* C7's case: {"id":"x"} decoded into Capability, which requires name
C7_Witness ==
    /\ Done("execute") /\ ChildSucceeded /\ shape = "Capability"
    /\ Child.stdout = <<123, 34, 105, 100, 34, 58, 34, 120, 34, 125>>
    /\ Ret.kind = "JsonParse"

\* C8 as claimed: when the child exits 0, raw execution returns the stdout
\* captured verbatim, nothing trimmed or added.
C8_Original ==
    (Done("execute_raw") /\ ChildSucceeded) =>
        Ret.kind = "Ok" /\ Utf8Encode(Ret.value) = Child.stdout

\* C8 as amended: when the child exits 0, raw execution returns the stdout
\* captured decoded lossily as UTF-8: verbatim, nothing trimmed or added, when
\* stdout is valid UTF-8 (the empty string when it is empty), and with U+FFFD
\* in place of each invalid byte sequence otherwise.
C8_SuccessReturnsStdoutLossy ==
    (Done("execute_raw") /\ ChildSucceeded) =>
        /\ Ret.kind = "Ok"
        /\ Ret.value = FromUtf8Lossy(Child.stdout)
        /\ IsUtf8(Child.stdout) => Utf8Encode(Ret.value) = Child.stdout
        /\ ~IsUtf8(Child.stdout) => \E k \in DOMAIN Ret.value : Ret.value[k] = ReplacementChar

\* C8's case: exit 0 with an empty stdout is a success with the empty string
C8_Witness ==
    /\ Done("execute_raw") /\ ChildSucceeded
    /\ Child.stdout = <<>>
    /\ Ret = [kind |-> "Ok", value |-> <<>>]

\* C9: an execution ends in a success or in a failure, never in both;
\* structured execution returns a decoded value exactly when the child exited
\* 0, stdout was not empty and stdout decoded into the target shape
\* ({"name":"x"} into Capability gives name = "x"), and nothing is decoded
\* when the child failed or was not spawned.
C9_AllOrNothing ==
    /\ (pc = "done" /\ entry \in {"execute", "execute_raw"}) =>
          /\ Len(result) = 1
          /\ Ret.kind = "Ok" => DOMAIN Ret = {"kind", "value"}
          /\ Ret.kind # "Ok" =>
                /\ Ret.kind \in {"CliError", "CliExecution", "JsonParse", "Io"}
                /\ "value" \notin DOMAIN Ret
    /\ entry \in {"execute", "execute_raw"} /\ pc # "done" => result = <<>>
    /\ Done("execute") =>
          /\ Ret.kind = "Ok" <=>
                /\ ChildSucceeded
                /\ Child.stdout # <<>>
                /\ from_str(ShapeOf(shape), FromUtf8Lossy(Child.stdout)).ok
          /\ Ret.kind = "Ok" =>
                Ret.value = from_str(ShapeOf(shape), FromUtf8Lossy(Child.stdout)).val
          /\ (ChildSucceeded /\ shape = "Capability"
                  /\ Child.stdout = <<123, 34, 110, 97, 109, 101, 34, 58, 34, 120, 34, 125>>) =>
                Ret.kind = "Ok" /\ Ret.value.name = Str(<<120>>)
          /\ ~ChildSucceeded => decodes = 0
          /\ decodes <= 1

\* C9's case: {"name":"x"} decoded into Capability
C9_Witness ==
    /\ Done("execute") /\ ChildSucceeded /\ shape = "Capability"
    /\ Child.stdout = <<123, 34, 110, 97, 109, 101, 34, 58, 34, 120, 34, 125>>
    /\ Ret.value.name = Str(<<120>>)
    /\ decodes = 1

\* C10: one call of raw or structured execution spawns the external tool once
\* and never again, whatever its outcome.
C10_OneSpawnPerCall ==
    entry \in {"execute", "execute_raw"} =>
        /\ Len(spawns) <= 1
        /\ pc = "spawn" => Len(spawns) = 0
        /\ pc \in {"running", "done"} => Len(spawns) = 1

\* C10's case: a structured execution that failed to decode has returned
C10_Witness ==
    /\ Done("execute")
    /\ Ret.kind = "JsonParse"
    /\ Len(spawns) = 1

\* an entry point of utils.rs has returned a failure
Failed == pc = "done" /\ entry # "build" /\ Ret.kind # "Ok"

---------------------------------------------------------------------------
(* The AzureClient's commands.                                              *)

\* the method of AzureClient that is running, and its arguments
Method == running[1].call.method
Arguments == running[1].call

\* the method has passed verify_setup and its own command has been handed
\* to Command::output()
CommandSpawned ==
    /\ running # <<>>
    /\ Method # "verify_setup"
    /\ Len(running[1].stages) = 1
    /\ pc \in {"running", "done"}

\* the tokens of the command handed to Command::output() last
SpawnedArgs == spawns[Len(spawns)].cmd.args

Has(tokens, t) == \E i \in 1..Len(tokens) : tokens[i] = t

DeleteMethods ==
    {"delete_resource_group", "delete_cosmos_account", "delete_sql_database",
     "delete_sql_container"}

\* C12: the command every delete method of the client hands to az holds the
\* token "--yes", whatever its arguments and whether or not the client has a
\* subscription.
C12_DeleteCarriesYes ==
    (CommandSpawned /\ Method \in DeleteMethods) => Has(SpawnedArgs, "--yes")

C12_Witness ==
    /\ CommandSpawned
    /\ Method = "delete_sql_container"
    /\ client[1].subscription_id = <<>>
    /\ SpawnedArgs = <<"cosmosdb", "sql", "container", "delete",
                       "--account-name", "n", "--resource-group", "rg",
                       "--database-name", "db", "--name", "c", "--yes",
                       "--output", "json">>

\* the methods that act on the account itself: they list the subscriptions or
\* name the one they act on in their own argument
AccountMethods ==
    {"verify_setup", "list_subscriptions", "show_current_subscription",
     "set_subscription"}

\* the caller of list_resource_groups gave a subscription of its own
Overridden ==
    Method = "list_resource_groups" /\ Arguments.subscription_id # <<>>

HasPair(tokens, a, b) ==
    \E i \in 1..(Len(tokens) - 1) : tokens[i] = a /\ tokens[i + 1] = b

\* C13: while the client holds a subscription s (set by use_subscription or
\* with_subscription and not cleared), every resource command it hands to az
\* carries the pair "--subscription", s; the SQL container, throughput,
\* MongoDB, locations and failover methods included.
C13_SubscriptionInAllCommands ==
    (/\ CommandSpawned
     /\ Method \notin AccountMethods
     /\ ~Overridden
     /\ client[1].subscription_id # <<>>)
        => HasPair(SpawnedArgs, "--subscription", client[1].subscription_id[1])

\* the commands of cosmos.rs that take no subscription_id
Unscoped ==
    {"list_sql_containers", "show_sql_container", "create_sql_container",
     "delete_sql_container", "get_database_throughput",
     "update_database_throughput", "get_container_throughput",
     "update_container_throughput", "list_mongodb_databases",
     "list_mongodb_collections", "list_cosmos_account_locations",
     "cosmos_failover_priority_change"}

\* what the code does: the subscription reaches the commands that take one
C13_SubscriptionWhereTaken ==
    (/\ CommandSpawned
     /\ Method \notin AccountMethods
     /\ ~Overridden
     /\ client[1].subscription_id # <<>>)
        => (HasPair(SpawnedArgs, "--subscription", client[1].subscription_id[1])
                <=> Method \notin Unscoped)

\* the subcommands that change what Azure holds
Mutating ==
    {"create", "update", "delete", "set", "regenerate",
     "failover-priority-change"}

\* C14: the library only reads: no command the client hands to az holds a
\* create, update, delete, set, regenerate or failover-priority-change
\* subcommand.
C14_ReadOnly ==
    \A i \in 1..Len(spawns) :
        \A j \in 1..Len(spawns[i].cmd.args) : spawns[i].cmd.args[j] \notin Mutating

---------------------------------------------------------------------------
(* The builder's optional calls.                                            *)

\* the step is a builder call of the given name
BuilderStep(name) ==
    /\ Len(calls') = Len(calls) + 1
    /\ calls'[Len(calls')].op = name

\* the arguments of the call the step made
Called == calls'[Len(calls')]

\* C15: optional_param(flag, None) leaves the tokens as they are, and
\* optional_param(flag, Some(v)) puts exactly flag, v after them; the builder
\* goes on either way.
C15_OptionalParamAppends ==
    [][BuilderStep("optional_param") =>
          /\ pc' = "build"
          /\ Called.value = <<>> => args' = args
          /\ Called.value # <<>> => args' = args \o <<Called.flag, Called.value[1]>>]_vars

C15_Witness ==
    /\ pc = "build"
    /\ Len(calls) = 3
    /\ calls[1].op = "subcommand"
    /\ calls[2].op = "optional_param" /\ calls[2].value = <<>>
    /\ calls[3].op = "optional_param" /\ calls[3].value = <<"a">>
    /\ args = <<"group", "--kind", "a">>

\* C16: conditional_flag(flag, false) leaves the tokens as they are and
\* conditional_flag(flag, true) puts the one token flag after them: no value
\* and no negative form follows it.
C16_ConditionalFlagAppends ==
    [][BuilderStep("conditional_flag") =>
          /\ ~Called.condition => args' = args
          /\ Called.condition => args' = Append(args, Called.flag)]_vars

C16_Witness ==
    /\ pc = "build"
    /\ Len(calls) = 3
    /\ calls[1].op = "subcommand"
    /\ calls[2].op = "conditional_flag" /\ ~calls[2].condition
    /\ calls[3].op = "conditional_flag" /\ calls[3].condition
    /\ args = <<"list", "--enable-automatic-failover">>

\* C17: subscription(None) leaves the tokens as they are and
\* subscription(Some(id)) puts "--subscription", id after them; so
\* new().subcommand("group").subcommand("list").subscription(Some("sub-1"))
\* builds "group", "list", "--subscription", "sub-1".
C17_SubscriptionAppends ==
    /\ [][BuilderStep("subscription") =>
            /\ Called.value = <<>> => args' = args
            /\ Called.value # <<>> =>
                   args' = args \o <<"--subscription", Called.value[1]>>]_vars
    /\ []((/\ Done("build")
           /\ calls = <<Call("subcommand", "group", <<>>, TRUE),
                        Call("subcommand", "list", <<>>, TRUE),
                        Call("subscription", "--subscription", <<"sub-1">>, TRUE)>>)
             => Ret.value = <<"group", "list", "--subscription", "sub-1">>)

C17_Witness ==
    /\ Done("build")
    /\ Len(calls) = 3
    /\ calls[1].flag = "group" /\ calls[2].flag = "list"
    /\ calls[3].op = "subscription" /\ calls[3].value = <<"sub-1">>
    /\ Ret.value = <<"group", "list", "--subscription", "sub-1">>

---------------------------------------------------------------------------
(* Decoding and encoding.                                                   *)

\* the keys of the object given, and the text given under a key
GivenKeys == {given[i].key : i \in DOMAIN given}
GivenUnder(key) == given[CHOOSE i \in DOMAIN given : given[i].key = key].value

\* the fields of the type decoded into
Fields == {StructOf(shape).fields[n] : n \in DOMAIN StructOf(shape).fields}

\* the object given holds the field under its own key and under an alias
BothGiven(f) == f.key \in GivenKeys /\ (f.keys \ {f.key}) \cap GivenKeys # {}

\* from_str has returned
Decoded == result # <<>> /\ given # <<>>

\* the value of the field f that a text stands for
ValueIn(f, text) == DeserializeValue(f, text, 1).val

\* C18 as first stated: with both keys given, decoding succeeds and the
\* field has the value given under its own key.
C18_Original ==
    \A f \in Fields :
        (Decoded /\ BothGiven(f)) =>
            /\ result[1].ok
            /\ result[1].val[f.name] = ValueIn(f, GivenUnder(f.key))

\* C18: when the object holds a field under its own key and under an alias,
\* decoding fails with the error "duplicate field" naming that field,
\* whichever key comes first; no value is taken.
C18_BothKeysIsDuplicateField ==
    (Decoded /\ \E f \in Fields : BothGiven(f)) =>
        /\ ~result[1].ok
        /\ result[1].diag.category = "data"
        /\ \E f \in Fields :
              /\ BothGiven(f)
              /\ result[1].diag.message = "duplicate field '" \o f.label \o "'"

C18_Witness ==
    /\ pc = "done"
    /\ shape = "Subscription"
    /\ given[4].key = <<116, 101, 110, 97, 110, 116, 95, 105, 100>> /\ given[5].key = <<116, 101, 110, 97, 110, 116, 73, 100>>
    /\ ~result[1].ok
    /\ result[1].diag.message = "duplicate field 'tenant_id'"
    /\ encoded = <<>>

\* C19: a value that from_str decoded is written by to_string as a text that
\* from_str decodes into an equal value, whichever keys the first text had.
C19_RoundTrip ==
    (pc = "done" /\ Decoded /\ result[1].ok) =>
        /\ encoded # <<>> /\ again # <<>>
        /\ again[1].ok
        /\ again[1].val = result[1].val

C19_Witness ==
    /\ pc = "done"
    /\ shape = "CosmosAccount"
    /\ <<114, 101, 115, 111, 117, 114, 99, 101, 71, 114, 111, 117, 112>> \in GivenKeys /\ <<114, 101, 115, 111, 117, 114, 99, 101, 95, 103, 114, 111, 117, 112>> \notin GivenKeys
    /\ <<116, 97, 103, 115>> \in GivenKeys
    /\ result[1].ok /\ again[1].ok
    /\ again[1].val = result[1].val
    /\ again[1].val.resource_group = Str(<<97>>)
    /\ encoded[1] # ObjectText(given)

\* the keys of the object of test_azure_field_mapping
CamelCaseKeys ==
    {<<110, 97, 109, 101>>, <<105, 100>>, <<108, 111, 99, 97, 116, 105, 111, 110>>, <<107, 105, 110, 100>>,
     <<114, 101, 115, 111, 117, 114, 99, 101, 71, 114, 111, 117, 112>>,
     <<100, 111, 99, 117, 109, 101, 110, 116, 69, 110, 100, 112, 111, 105, 110, 116>>,
     <<112, 114, 111, 118, 105, 115, 105, 111, 110, 105, 110, 103, 83, 116, 97, 116, 101>>,
     <<116, 121, 112, 101>>}

\* a key in snake case
SnakeCase(key) == \E i \in DOMAIN key : key[i] = 95

\* C20: a CosmosAccount given under camel-case keys alone (resourceGroup,
\* documentEndpoint, provisioningState, type) is decoded, each field has the
\* value given under its key, and every Option field not given is None.
C20_CamelCaseKeysDecode ==
    (/\ Decoded /\ shape = "CosmosAccount"
     /\ CamelCaseKeys \subseteq GivenKeys
     /\ \A key \in GivenKeys : ~SnakeCase(key)) =>
        /\ result[1].ok
        /\ \A f \in Fields :
              /\ \A k \in f.keys \cap GivenKeys :
                    result[1].val[f.name] = ValueIn(f, GivenUnder(k))
              /\ (f.optional /\ f.keys \cap GivenKeys = {}) =>
                    result[1].val[f.name] = None

C20_Witness ==
    /\ Decoded
    /\ shape = "CosmosAccount"
    /\ GivenKeys = CamelCaseKeys
    /\ result[1].ok
    /\ result[1].val.resource_group = Str(<<97>>)
    /\ result[1].val.document_endpoint = Str(<<101>>)
    /\ result[1].val.provisioning_state = Str(<<112>>)
    /\ result[1].val.resource_type = Str(<<116>>)
    /\ result[1].val.backup_policy = None
    /\ result[1].val.tags = None


---------------------------------------------------------------------------
(* Concurrent callers.                                                      *)

\* what caller c passed to the function it called, and the spawns it made
CallOf(c) == calls[CHOOSE i \in DOMAIN calls : calls[i].caller = c]
SpawnsOf(c) == {i \in DOMAIN spawns : spawns[i].caller = c}
HasCalled(c) == \E i \in DOMAIN calls : calls[i].caller = c

\* C21: under every interleaving of the callers, the argument vector a
\* caller's function spawns is built from that caller's tokens alone, and the
\* value it returns is the one the function gives for that caller's tokens
\* and that caller's own child (its exit status, stdout and stderr), whatever
\* the other callers have called and whatever their children did.
C21_CallersIndependent ==
    callers # <<>> =>
        \A c \in Callers :
            /\ \A i \in SpawnsOf(c) :
                  spawns[i].cmd = CommandOf(CallOf(c).entry, CallOf(c).args)
            /\ callers[c].pc \in {"running", "done"} => Cardinality(SpawnsOf(c)) = 1
            /\ callers[c].pc = "done" =>
                  callers[c].ret =
                      <<Return(CallOf(c).entry, CallOf(c).args, CallOf(c).shape,
                               callers[c].output[1]).ret>>

\* caller 2 spawned its child first and it still runs, while caller 1 has
\* called with other tokens, spawned and returned
C21_Witness ==
    /\ callers # <<>>
    /\ Len(spawns) = 2 /\ spawns[1].caller = 2 /\ spawns[2].caller = 1
    /\ callers[2].pc = "running" /\ callers[2].entry = "check_authentication"
    /\ callers[1].pc = "done" /\ callers[1].entry = "execute"
    /\ spawns[2].cmd.args = <<"account", "list", "--output", "json">>
    /\ spawns[1].cmd.args = <<"account", "show", "--output", "json">>
    /\ callers[1].ret[1].kind = "Ok"


---------------------------------------------------------------------------
(* The probes of the AzureClient.                                           *)

\* the method called has returned: a function it awaited gave a failure, or
\* the last one gave its value
MethodReturned ==
    /\ running # <<>> /\ pc = "done"
    /\ Len(running[1].stages) = 1 \/ Ret.kind # "Ok"

\* what the functions the method awaited have given so far, in order; each
\* of them handed one command to Command::output()
StageResults == running[1].returned \o (IF pc = "done" THEN <<Ret>> ELSE <<>>)

\* the command cmd was spawned as a step of the method and the function
\* that spawned it gave Ok
Succeeded(cmd) ==
    \E i \in DOMAIN spawns :
        /\ spawns[i].cmd = cmd /\ spawns[i].started
        /\ i <= Len(StageResults) /\ StageResults[i].kind = "Ok"

\* C22 as claimed: verify_setup returns Ok only if the availability probe
\* and the authentication probe were both run and both succeeded.
C22_VerifySetupChecksBoth ==
    (MethodReturned /\ Method = "verify_setup" /\ Ret.kind = "Ok") =>
        /\ Succeeded(VersionCommand)
        /\ Succeeded(RawCommand(AccountShow))

\* the client was made by new_no_auth_check: no other constructor and no
\* method sets auto_check_auth to false
NoAuthCheck == client # <<>> /\ ~client[1].auto_check_auth

LastClientOp == calls[Len(calls)]

\* C24: get_subscription returns the id of the most recent use_subscription,
\* None once clear_subscription came last (also on a client built by
\* with_subscription), and the constructor's value when neither was called;
\* after a clear_subscription that came last, no command spawned for a method
\* that takes the subscription from the client has a "--subscription" token
C24_SubscriptionFollowsCalls ==
    client # <<>> =>
        /\ Done("get_subscription") =>
               Ret.value = CASE LastClientOp.op = "use_subscription" -> LastClientOp.value
                             [] LastClientOp.op = "clear_subscription" -> <<>>
                             [] LastClientOp.op = "with_subscription" -> LastClientOp.value
                             [] OTHER -> <<>>
        /\ LastClientOp.op = "clear_subscription" =>
               \A i \in 1..Len(spawns) : ~Has(spawns[i].cmd.args, "--subscription")

C24_Witness ==
    /\ calls = <<ClientOp("with_subscription", <<"sub-1">>),
                 ClientOp("use_subscription", <<"sub-2">>),
                 ClientOp("clear_subscription", <<>>)>>
    /\ Done("get_subscription")
    /\ Ret.value = <<>>

Executions == {"execute", "execute_raw"}

\* the child of the call was spawned and has not exited
ChildRuns == spawns # <<>> /\ spawns[Len(spawns)].started /\ child = <<>>

\* the spawn call of the call failed
SpawnFailure == spawns # <<>> /\ ~spawns[Len(spawns)].started

\* C25: a raw or structured execution returns if and only if the spawn fails
\* or the child exits: it has returned nothing while it waits for the spawn or
\* for the child, when it has returned there is exactly one outcome and the
\* spawn failed or the child exited, and where every child exits every call
\* returns
C25_ReturnsIffChildExits ==
    /\ [](entry \in Executions =>
            /\ pc \in {"spawn", "running"} => result = <<>>
            /\ ChildRuns => pc = "running"
            /\ pc = "done" => Len(result) = 1 /\ (SpawnFailure \/ child # <<>>))
    /\ (entry \in Executions /\ pc \in {"spawn", "running"})
           ~> (pc = "done" /\ Len(result) = 1)

C25_Witness ==
    /\ Done("execute_raw")
    /\ Len(spawns) = 1 /\ spawns[1].started
    /\ child # <<>> /\ Child.status = Signaled(9)
    /\ Len(result) = 1

\* the client checks before every method: new, with_subscription, default
AutoCheck == client # <<>> /\ client[1].auto_check_auth

\* C26: a resource method of a client with automatic checks spawns az --version,
\* then az account show, then its own command, in this order and at most
\* these three; az account show is spawned only after check_az_cli gave Ok,
\* the method's command only after check_authentication gave Ok too, and a
\* method that returns before its third spawn returns the error of the probe
\* spawned last
C26_ProbesThenCommand ==
    (AutoCheck /\ running # <<>> /\ Method # "verify_setup") =>
        /\ Len(spawns) <= 3
        /\ Len(spawns) >= 1 => spawns[1].cmd = VersionCommand
        /\ Len(spawns) >= 2 =>
               /\ spawns[2].cmd = RawCommand(AccountShow)
               /\ Succeeded(VersionCommand)
        /\ Len(spawns) >= 3 =>
               /\ spawns[3].cmd = RawCommand(ClientCommand(client[1], Arguments).args)
               /\ Succeeded(VersionCommand)
               /\ Succeeded(RawCommand(AccountShow))
        /\ (MethodReturned /\ Len(spawns) = 1) => Ret.kind = "CliNotFound"
        /\ (MethodReturned /\ Len(spawns) = 2) =>
               Ret.kind \in {"Authentication", "CliError", "CliExecution", "Io"}

C26_Witness ==
    /\ AutoCheck /\ MethodReturned
    /\ Method = "list_resource_groups"
    /\ Len(spawns) = 3
    /\ \A i \in 1..3 : spawns[i].started
    /\ spawns[3].cmd.args = <<"group", "list", "--output", "json">>

\* C27: a raw execution fails exactly when the spawn fails or the child ends
\* otherwise than by exit 0, and its failure is Io (with the OS error) exactly
\* when the spawn failed, CliError (with the command line and stderr, and no
\* exit code) exactly when the child failed having written to stderr, and
\* CliExecution (with the exit code in its message, -1 for a child that has
\* none) exactly when the child failed with an empty stderr
C27_RawFailureMapping ==
    Done("execute_raw") =>
        /\ Ret.kind \in {"Ok", "Io", "CliError", "CliExecution"}
        /\ Ret.kind # "Ok" <=> (SpawnFailure \/ (child # <<>> /\ ~success(Child.status)))
        /\ Ret.kind = "Io" <=> SpawnFailure
        /\ Ret.kind = "Io" => Ret.error \in IoErrors
        /\ Ret.kind = "CliError" <=>
               (child # <<>> /\ ~success(Child.status) /\ Child.stderr # <<>>)
        /\ Ret.kind = "CliError" =>
               /\ Ret.command = CommandString(args)
               /\ Ret.stderr = FromUtf8Lossy(Child.stderr)
               /\ DOMAIN Ret = {"kind", "command", "stderr"}
        /\ Ret.kind = "CliExecution" <=>
               (child # <<>> /\ ~success(Child.status) /\ Child.stderr = <<>>)
        /\ Ret.kind = "CliExecution" =>
               Ret.error = "Command failed with exit code: "
                               \o (IF Child.status.exited
                                   THEN ToString(Child.status.code) ELSE "-1")

C27_Witness ==
    /\ Done("execute_raw")
    /\ child # <<>> /\ ~Child.status.exited /\ Child.stderr = <<>>
    /\ Ret.kind = "CliExecution"
    /\ Ret.error = "Command failed with exit code: -1"

\* stdout has bytes and all of them are white space
Blank(bytes) == bytes # <<>> /\ \A i \in 1..Len(bytes) : IsWs(bytes[i])

\* C28: a structured execution whose child exited 0 reports "Empty output"
\* exactly when stdout has no bytes; when stdout is white space only it calls
\* from_str once and returns the decode failure
C28_BlankOutputIsDecoded ==
    (Done("execute") /\ child # <<>> /\ success(Child.status)) =>
        /\ (Ret.kind = "CliExecution" /\ Ret.error = "Empty output")
               <=> Child.stdout = <<>>
        /\ Blank(Child.stdout) =>
               /\ Ret.kind = "JsonParse"
               /\ decodes = 1

C28_Witness ==
    /\ Done("execute") /\ shape = "Subscription"
    /\ child # <<>> /\ success(Child.status)
    /\ Child.stdout = <<10>>
    /\ Ret.kind = "JsonParse"

AutomaticFailover == "--enable-automatic-failover"
MultipleWriteLocations == "--enable-multiple-write-locations"

\* C29: the command spawned for create_cosmos_account and for
\* update_cosmos_account is the same for Some(false) as for None, in
\* enable_automatic_failover and in enable_multiple_write_locations; each flag
\* is a token exactly when its argument is Some(true), and no token is
\* "false" or a flag followed by "=false"
C29_FalseIsAbsent ==
    (CommandSpawned /\ Method \in {"create_cosmos_account", "update_cosmos_account"}) =>
        /\ SpawnedArgs =
               RawCommand(ClientCommand(client[1],
                   [Arguments EXCEPT
                       !.enable_automatic_failover = IF @ = <<FALSE>> THEN <<>> ELSE @,
                       !.enable_multiple_write_locations =
                           IF @ = <<FALSE>> THEN <<>> ELSE @]).args).args
        /\ Has(SpawnedArgs, AutomaticFailover)
               <=> Arguments.enable_automatic_failover = <<TRUE>>
        /\ Has(SpawnedArgs, MultipleWriteLocations)
               <=> Arguments.enable_multiple_write_locations = <<TRUE>>
        /\ \A i \in 1..Len(SpawnedArgs) :
               SpawnedArgs[i] \notin {"false", AutomaticFailover \o "=false",
                                      MultipleWriteLocations \o "=false"}

C29_Witness ==
    /\ CommandSpawned /\ Method = "update_cosmos_account"
    /\ Arguments.enable_automatic_failover = <<FALSE>>
    /\ Arguments.enable_multiple_write_locations = <<TRUE>>
    /\ ~Has(SpawnedArgs, AutomaticFailover)
    /\ Has(SpawnedArgs, MultipleWriteLocations)

====
